---- MODULE Spec2Model ----
(***************************************************************************)
(* Popcorn Palace: movie catalog, showtime scheduler and the two seat      *)
(* booking engines (tickets by customer name, bookings by user id).  The   *)
(* repository holds two variants of the application; a deployment runs one *)
(* of them, chosen in Init: "ticket" (showtimes by title and year, HH:mm   *)
(* times, TicketService) or "booking" (BookingService, bookings by user).  *)
(*                                                                         *)
(* Text values (titles, theaters, customer names) are tuples of one-letter *)
(* strings, so that trim() and toLowerCase() are computed.  A wall-clock   *)
(* time "HH:mm" is the pair <<HH, mm>>.  A database table with a generated *)
(* key that the services read (movie, show_time) is a set of rows with an  *)
(* id drawn from a serial counter; the ticket and bookings tables, whose   *)
(* generated key no service reads, are bags of rows.  The columns genre    *)
(* and rating of a movie take part in no rule and are left out.  A time   *)
(* read back from the show_time table is the time that was written.        *)
(***************************************************************************)
EXTENDS Integers, Sequences, FiniteSets, Bags, TLC

VARIABLES variant, movies, nextMovieId, showtimes, nextShowTimeId, tickets,
          bookings, resp, procs

vars == <<variant, movies, nextMovieId, showtimes, nextShowTimeId, tickets,
          bookings, resp, procs>>

-----------------------------------------------------------------------------
(* Bounds of the model *)

\* serial ids handed out by the movie table
MaxMovieId == 2
\* serial ids handed out by the show_time table
MaxShowTimeId == 2
\* the request times are the half hours FirstHour:00 + 30 * (0 .. MaxSlot)
MaxSlot == 2
\* seats of the warmed-up showtime that are still free
FreeSeats == 2
\* booking requests in flight at once
MaxProcs == 2

\* first hour of the request times
FirstHour == 14
\* fixed number of seats of a theater
Capacity == 100

-----------------------------------------------------------------------------
(* Text: String.prototype.trim / toLowerCase *)

Upper == {"A", "B", "U", "H"}

LowerOf(c) ==
    CASE c = "A" -> "a"
      [] c = "B" -> "b"
      [] c = "U" -> "u"
      [] c = "H" -> "h"
      [] OTHER -> c

toLowerCase(s) == [i \in 1..Len(s) |-> LowerOf(s[i])]

RECURSIVE trimStart(_)
trimStart(s) == IF s # <<>> /\ Head(s) = " " THEN trimStart(Tail(s)) ELSE s

RECURSIVE trimEnd(_)
trimEnd(s) ==
    IF s # <<>> /\ s[Len(s)] = " " THEN trimEnd(SubSeq(s, 1, Len(s) - 1)) ELSE s

trim(s) == trimEnd(trimStart(s))

\* faulty variant of Normalize: trimmed, letter case kept
Normalize_TrimOnly(s) == trim(s)

\* title.trim().toLowerCase()
Normalize(s) == toLowerCase(trim(s))

-----------------------------------------------------------------------------
(* Request values *)

\* an optional field of a partial dto: <<>> is undefined, <<v>> is v
Option(S) == {<<>>} \cup {<<v>> : v \in S}
Defined(o) == o # <<>>
Val(o) == o[1]

RawTitles == { <<" ", "U", "p">>, <<"h", "i">>, <<"n", "o">> }
RawTheaters == { <<" ", "A", " ">>, <<"b">> }
Years == { 2009 }
Durations == { 30, 60 }
Prices == { 0, 10 }
Times == { <<FirstHour + (k \div 2), 30 * (k % 2)>> : k \in 0..MaxSlot }

MovieIds == 1..MaxMovieId
ShowTimeIds == 1..MaxShowTimeId

-----------------------------------------------------------------------------
(* Responses *)

Ok(op) == [op |-> op, status |-> "Ok", msg |-> "ok"]
BadRequest(op, m) == [op |-> op, status |-> "BadRequest", msg |-> m]
NotFound(op, m) == [op |-> op, status |-> "NotFound", msg |-> m]

-----------------------------------------------------------------------------
(* MovieRepository *)

fetchMovieById(id) == { m \in movies : m.id = id }

fetchMovieByTitleAndReleaseYear(title, release_year) ==
    { m \in movies : m.title = title /\ m.release_year = release_year }

-----------------------------------------------------------------------------
(* MovieService *)

\* What a request on the catalog leaves behind: its response, the movie
\* table and the next serial id.  A request that throws leaves the table as
\* it was.
MovieThrown(r) == [resp |-> r, movies |-> movies, nextMovieId |-> nextMovieId]

\* faulty variant of addNewMovie: the row is inserted before the catalog is
\* searched for a movie of the same title and year
addNewMovie_InsertFirst(newMovie) ==
    LET title == Normalize(newMovie.title)
        existingMovie == fetchMovieByTitleAndReleaseYear(title, newMovie.release_year)
        inserted == movies \cup {[id |-> nextMovieId, title |-> title,
                                  release_year |-> newMovie.release_year,
                                  duration |-> newMovie.duration]}
    IN  {[resp |-> IF existingMovie # {} THEN BadRequest("addNewMovie", "MovieExists")
                   ELSE Ok("addNewMovie"),
          movies |-> inserted,
          nextMovieId |-> nextMovieId + 1]}

\* the outcomes of addNewMovie
addNewMovie(newMovie) ==
    LET title == Normalize(newMovie.title)
        existingMovie == fetchMovieByTitleAndReleaseYear(title, newMovie.release_year)
    IN  IF existingMovie # {}
        THEN {MovieThrown(BadRequest("addNewMovie", "MovieExists"))}
        ELSE {[resp |-> Ok("addNewMovie"),
               movies |-> movies \cup
                    {[id |-> nextMovieId, title |-> title,
                      release_year |-> newMovie.release_year,
                      duration |-> newMovie.duration]},
               nextMovieId |-> nextMovieId + 1]}

\* faulty variant of ApplyMovie: the showtimes of a movie that is no longer
\* stored go with it
ApplyMovie_Cascade(o) ==
    /\ o.nextMovieId <= MaxMovieId + 1
    /\ movies' = o.movies
    /\ nextMovieId' = o.nextMovieId
    /\ resp' = o.resp
    /\ showtimes' = { s \in showtimes : \E m \in o.movies : m.id = s.movie_id }
    /\ UNCHANGED <<variant, nextShowTimeId, tickets, bookings, procs>>

\* a request on the movie table takes effect
ApplyMovie(o) ==
    /\ o.nextMovieId <= MaxMovieId + 1
    /\ movies' = o.movies
    /\ nextMovieId' = o.nextMovieId
    /\ resp' = o.resp
    /\ UNCHANGED <<variant, showtimes, nextShowTimeId, tickets, bookings, procs>>

AddNewMovie(newMovie) == \E o \in addNewMovie(newMovie) : ApplyMovie(o)

\* { ...movieExists, ...movie } with the title trimmed and lower-cased
MergeMovie(movieExists, movie) ==
    [id |-> movieExists.id,
     title |-> Normalize(IF Defined(movie.title) THEN Val(movie.title)
                         ELSE movieExists.title),
     release_year |-> IF Defined(movie.release_year) THEN Val(movie.release_year)
                      ELSE movieExists.release_year,
     duration |-> IF Defined(movie.duration) THEN Val(movie.duration)
                  ELSE movieExists.duration]

\* the outcomes of updateMovieInfo
updateMovieInfo(id, movie) ==
    IF id <= 0
    THEN {MovieThrown(BadRequest("updateMovieInfo", "InvalidMovieId"))}
    ELSE IF fetchMovieById(id) = {}
    THEN {MovieThrown(NotFound("updateMovieInfo", "MovieNotFound"))}
    ELSE IF ~Defined(movie.title) /\ ~Defined(movie.release_year)
            /\ ~Defined(movie.duration)
    THEN {MovieThrown(BadRequest("updateMovieInfo", "NoFields"))}
    ELSE { [resp |-> Ok("updateMovieInfo"),
            movies |-> { IF m.id = id THEN MergeMovie(movieExists, movie) ELSE m :
                            m \in movies },
            nextMovieId |-> nextMovieId] : movieExists \in fetchMovieById(id) }

UpdateMovieInfo(id, movie) == \E o \in updateMovieInfo(id, movie) : ApplyMovie(o)

\* faulty variant of deleteMovie: an id that identifies no movie is deleted
\* without complaint
deleteMovie_Silent(id) ==
    IF id <= 0
    THEN {MovieThrown(BadRequest("deleteMovie", "InvalidMovieId"))}
    ELSE {[resp |-> Ok("deleteMovie"),
           movies |-> { m \in movies : m.id # id },
           nextMovieId |-> nextMovieId]}

\* the outcomes of deleteMovie
deleteMovie(id) ==
    IF id <= 0
    THEN {MovieThrown(BadRequest("deleteMovie", "InvalidMovieId"))}
    ELSE IF fetchMovieById(id) = {}
    THEN {MovieThrown(NotFound("deleteMovie", "MovieNotFound"))}
    ELSE {[resp |-> Ok("deleteMovie"),
           movies |-> { m \in movies : m.id # id },
           nextMovieId |-> nextMovieId]}

DeleteMovie(id) == \E o \in deleteMovie(id) : ApplyMovie(o)

-----------------------------------------------------------------------------
(* ShowTimeRepository (show_time table, HH:mm times) *)

\* a value of the SQL type time, in minutes after midnight
SqlTime(t) == t[1] * 60 + t[2]

fetchShowTimeById(id) == { s \in showtimes : s.id = id }

\* faulty variant of OverlapClause: strict comparisons throughout, so that a
\* window equal to a stored one does not overlap it
OverlapClause_Strict(row, theater, startTime, endTime) ==
    /\ toLowerCase(row.theater) = toLowerCase(theater)
    /\ \/ SqlTime(startTime) > SqlTime(row.start_time)
          /\ SqlTime(startTime) < SqlTime(row.end_time)
       \/ SqlTime(endTime) > SqlTime(row.start_time)
          /\ SqlTime(endTime) < SqlTime(row.end_time)
       \/ SqlTime(startTime) < SqlTime(row.start_time)
          /\ SqlTime(endTime) > SqlTime(row.end_time)

\* faulty variant of OverlapClause: the end of a stored window counts as
\* inside it
OverlapClause_Closed(row, theater, startTime, endTime) ==
    /\ toLowerCase(row.theater) = toLowerCase(theater)
    /\ \/ SqlTime(startTime) >= SqlTime(row.start_time)
          /\ SqlTime(startTime) <= SqlTime(row.end_time)
       \/ SqlTime(endTime) > SqlTime(row.start_time)
          /\ SqlTime(endTime) <= SqlTime(row.end_time)
       \/ SqlTime(startTime) <= SqlTime(row.start_time)
          /\ SqlTime(endTime) >= SqlTime(row.end_time)

\* the WHERE clause of hasOverLappingShowTime for one row
OverlapClause(row, theater, startTime, endTime) ==
    /\ toLowerCase(row.theater) = toLowerCase(theater)
    /\ \/ SqlTime(startTime) >= SqlTime(row.start_time)
          /\ SqlTime(startTime) < SqlTime(row.end_time)
       \/ SqlTime(endTime) > SqlTime(row.start_time)
          /\ SqlTime(endTime) <= SqlTime(row.end_time)
       \/ SqlTime(startTime) <= SqlTime(row.start_time)
          /\ SqlTime(endTime) >= SqlTime(row.end_time)

\* faulty variant of hasOverLappingShowTime: only the second clause, the new
\* end inside a stored window
hasOverLappingShowTime_EndOnly(theater, startTime, endTime) ==
    \E row \in showtimes :
        /\ toLowerCase(row.theater) = toLowerCase(theater)
        /\ SqlTime(endTime) > SqlTime(row.start_time)
        /\ SqlTime(endTime) <= SqlTime(row.end_time)

\* faulty variant of hasOverLappingShowTime: only the first clause, the new
\* start inside a stored window
hasOverLappingShowTime_StartOnly(theater, startTime, endTime) ==
    \E row \in showtimes :
        /\ toLowerCase(row.theater) = toLowerCase(theater)
        /\ SqlTime(startTime) >= SqlTime(row.start_time)
        /\ SqlTime(startTime) < SqlTime(row.end_time)

hasOverLappingShowTime(theater, startTime, endTime) ==
    \E row \in showtimes : OverlapClause(row, theater, startTime, endTime)

findExactShowTime(showtime) ==
    { row \in showtimes :
        /\ row.movie_id = showtime.movie_id
        /\ toLowerCase(row.theater) = toLowerCase(showtime.theater)
        /\ row.start_time = showtime.start_time
        /\ row.end_time = showtime.end_time
        /\ row.price = showtime.price }

findShowTimeByTheaterAndStartTime(theater, start_time) ==
    { row \in showtimes :
        /\ toLowerCase(row.theater) = toLowerCase(trim(theater))
        /\ row.start_time = start_time }

-----------------------------------------------------------------------------
(* ShowTimeService *)

calculateDuration(startTime, endTime) ==
    LET startTotal == startTime[1] * 60 + startTime[2]
        endTotal == endTime[1] * 60 + endTime[2]
    IN  endTotal - startTotal

\* start > end on two "HH:mm" strings: character order, hours first
StringGreater(a, b) == a[1] > b[1] \/ (a[1] = b[1] /\ a[2] > b[2])

\* faulty variant of validateTimeLogic: a window longer than the movie passes
validateTimeLogic_AtLeast(start, end, expectedDuration) ==
    IF start = end THEN "SameStartEnd"
    ELSE IF StringGreater(start, end) THEN "EndBeforeStart"
    ELSE IF calculateDuration(start, end) < expectedDuration THEN "DurationMismatch"
    ELSE "ok"

\* the message validateTimeLogic throws, "ok" when it returns
validateTimeLogic(start, end, expectedDuration) ==
    IF start = end THEN "SameStartEnd"
    ELSE IF StringGreater(start, end) THEN "EndBeforeStart"
    ELSE IF calculateDuration(start, end) # expectedDuration THEN "DurationMismatch"
    ELSE "ok"

\* What a request leaves behind: its response, the show_time table and the
\* next serial id.  A request that throws leaves the table as it was.
Thrown(r) ==
    [resp |-> r, showtimes |-> showtimes, nextShowTimeId |-> nextShowTimeId]

\* faulty variant of addNewShowTime: the movie looked up before the price
\* is checked
addNewShowTime_MovieFirst(newShowTime) ==
    LET movieName == Normalize(newShowTime.movie_title)
        theaterName == Normalize(newShowTime.theater)
        start_time == newShowTime.start_time
        end_time == newShowTime.end_time
        found == fetchMovieByTitleAndReleaseYear(movieName, newShowTime.movie_release_year)
        WithMovie(movie) ==
            LET row == [movie_id |-> movie.id, theater |-> theaterName,
                        start_time |-> start_time, end_time |-> end_time,
                        price |-> newShowTime.price]
            IN  IF newShowTime.price <= 0
                THEN Thrown(BadRequest("addNewShowTime", "PriceNotPositive"))
                ELSE IF validateTimeLogic(start_time, end_time, movie.duration) # "ok"
                THEN Thrown(BadRequest("addNewShowTime",
                            validateTimeLogic(start_time, end_time, movie.duration)))
                ELSE IF hasOverLappingShowTime(theaterName, start_time, end_time)
                THEN Thrown(BadRequest("addNewShowTime", "Overlap"))
                ELSE IF findExactShowTime(row) # {}
                THEN Thrown(BadRequest("addNewShowTime", "SameDetails"))
                ELSE [resp |-> Ok("addNewShowTime"),
                      showtimes |-> showtimes \cup
                            {[id |-> nextShowTimeId, movie_id |-> row.movie_id,
                              theater |-> row.theater, start_time |-> row.start_time,
                              end_time |-> row.end_time, price |-> row.price]},
                      nextShowTimeId |-> nextShowTimeId + 1]
    IN  IF found = {}
        THEN {Thrown(NotFound("addNewShowTime", "MovieNotFound"))}
        ELSE { WithMovie(movie) : movie \in found }

\* the outcomes of addNewShowTime
addNewShowTime(newShowTime) ==
    LET movieName == Normalize(newShowTime.movie_title)
        theaterName == Normalize(newShowTime.theater)
        start_time == newShowTime.start_time
        end_time == newShowTime.end_time
        found == fetchMovieByTitleAndReleaseYear(movieName, newShowTime.movie_release_year)
        WithMovie(movie) ==
            LET row == [movie_id |-> movie.id, theater |-> theaterName,
                        start_time |-> start_time, end_time |-> end_time,
                        price |-> newShowTime.price]
            IN  IF validateTimeLogic(start_time, end_time, movie.duration) # "ok"
                THEN Thrown(BadRequest("addNewShowTime",
                            validateTimeLogic(start_time, end_time, movie.duration)))
                ELSE IF hasOverLappingShowTime(theaterName, start_time, end_time)
                THEN Thrown(BadRequest("addNewShowTime", "Overlap"))
                ELSE IF findExactShowTime(row) # {}
                THEN Thrown(BadRequest("addNewShowTime", "SameDetails"))
                ELSE [resp |-> Ok("addNewShowTime"),
                      showtimes |-> showtimes \cup
                            {[id |-> nextShowTimeId, movie_id |-> row.movie_id,
                              theater |-> row.theater, start_time |-> row.start_time,
                              end_time |-> row.end_time, price |-> row.price]},
                      nextShowTimeId |-> nextShowTimeId + 1]
    IN  IF newShowTime.price <= 0
        THEN {Thrown(BadRequest("addNewShowTime", "PriceNotPositive"))}
        ELSE IF found = {}
        THEN {Thrown(NotFound("addNewShowTime", "MovieNotFound"))}
        ELSE { WithMovie(movie) : movie \in found }

\* faulty variant of Apply: the tickets of a showtime that is no longer
\* stored go with it
Apply_Cascade(o) ==
    /\ o.nextShowTimeId <= MaxShowTimeId + 1
    /\ showtimes' = o.showtimes
    /\ nextShowTimeId' = o.nextShowTimeId
    /\ resp' = o.resp
    /\ tickets' = [r \in { t \in DOMAIN tickets :
                            \E s \in o.showtimes : s.id = t.showtime_id }
                     |-> tickets[r]]
    /\ UNCHANGED <<variant, movies, nextMovieId, bookings, procs>>

\* a request on the show_time table takes effect
Apply(o) ==
    /\ o.nextShowTimeId <= MaxShowTimeId + 1
    /\ showtimes' = o.showtimes
    /\ nextShowTimeId' = o.nextShowTimeId
    /\ resp' = o.resp
    /\ UNCHANGED <<variant, movies, nextMovieId, tickets, bookings, procs>>

AddNewShowTime(newShowTime) == \E o \in addNewShowTime(newShowTime) : Apply(o)

\* validateMovie (a title is a true condition unless undefined or ""; a year
\* of the dto is never 0): "movie" with the rows found, "none" when the dto names no
\* movie, else the error thrown
validateMovie(updatesShowTime) ==
    IF Defined(updatesShowTime.movie_title) /\ Val(updatesShowTime.movie_title) # <<>>
       /\ Defined(updatesShowTime.movie_release_year)
    THEN LET found == fetchMovieByTitleAndReleaseYear(
                        Normalize(Val(updatesShowTime.movie_title)),
                        Val(updatesShowTime.movie_release_year))
         IN  IF found = {} THEN [kind |-> "NotFound", rows |-> {}]
             ELSE [kind |-> "movie", rows |-> found]
    ELSE IF (Defined(updatesShowTime.movie_title)
                /\ Val(updatesShowTime.movie_title) # <<>>)
            \/ Defined(updatesShowTime.movie_release_year)
    THEN [kind |-> "BadRequest", rows |-> {}]
    ELSE [kind |-> "none", rows |-> {}]

\* faulty variant of createUpdatedShowTime: the theater stored as it is sent
createUpdatedShowTime_RawTheater(existingShowTime, updatesShowTime, movie_id) ==
    [id |-> existingShowTime.id,
     movie_id |-> movie_id,
     theater |-> IF Defined(updatesShowTime.theater)
                 THEN Val(updatesShowTime.theater)
                 ELSE existingShowTime.theater,
     start_time |-> IF Defined(updatesShowTime.start_time)
                    THEN Val(updatesShowTime.start_time)
                    ELSE existingShowTime.start_time,
     end_time |-> IF Defined(updatesShowTime.end_time)
                  THEN Val(updatesShowTime.end_time)
                  ELSE existingShowTime.end_time,
     price |-> IF Defined(updatesShowTime.price)
               THEN Val(updatesShowTime.price)
               ELSE existingShowTime.price]

createUpdatedShowTime(existingShowTime, updatesShowTime, movie_id) ==
    [id |-> existingShowTime.id,
     movie_id |-> movie_id,
     theater |-> IF Defined(updatesShowTime.theater)
                 THEN Normalize(Val(updatesShowTime.theater))
                 ELSE existingShowTime.theater,
     start_time |-> IF Defined(updatesShowTime.start_time)
                    THEN Val(updatesShowTime.start_time)
                    ELSE existingShowTime.start_time,
     end_time |-> IF Defined(updatesShowTime.end_time)
                  THEN Val(updatesShowTime.end_time)
                  ELSE existingShowTime.end_time,
     price |-> IF Defined(updatesShowTime.price)
               THEN Val(updatesShowTime.price)
               ELSE existingShowTime.price]

\* faulty variant of changedTime: a change of theater alone does not count
changedTime_TimesOnly(updated, existing) ==
    \/ updated.start_time # existing.start_time
    \/ updated.end_time # existing.end_time

\* faulty variant of changedTime: every update counts as a change of window
changedTime_Always(updated, existing) == TRUE

changedTime(updated, existing) ==
    \/ updated.start_time # existing.start_time
    \/ updated.end_time # existing.end_time
    \/ updated.theater # existing.theater

\* faulty variant of UpdateWith: a price of 0, which the request schema
\* admits, passes the price check
UpdateWith_ZeroPrice(id, existingShowTime, updatesShowTime, movieId, duration) ==
    LET updated == createUpdatedShowTime(existingShowTime, updatesShowTime, movieId)
    IN  IF Defined(updatesShowTime.price) /\ Val(updatesShowTime.price) < 0
        THEN Thrown(BadRequest("updateShowTimeInfo", "PriceNotPositive"))
        ELSE IF validateTimeLogic(updated.start_time, updated.end_time, duration) # "ok"
        THEN Thrown(BadRequest("updateShowTimeInfo",
                    validateTimeLogic(updated.start_time, updated.end_time, duration)))
        ELSE IF changedTime(updated, existingShowTime)
                /\ hasOverLappingShowTime(updated.theater, updated.start_time,
                                          updated.end_time)
        THEN Thrown(BadRequest("updateShowTimeInfo", "Overlap"))
        ELSE [resp |-> Ok("updateShowTimeInfo"),
              showtimes |-> { IF s.id = id THEN updated ELSE s : s \in showtimes },
              nextShowTimeId |-> nextShowTimeId]

\* the rest of updateShowTimeInfo once the movie id and duration are known
UpdateWith(id, existingShowTime, updatesShowTime, movieId, duration) ==
    LET updated == createUpdatedShowTime(existingShowTime, updatesShowTime, movieId)
    IN  IF Defined(updatesShowTime.price) /\ Val(updatesShowTime.price) <= 0
        THEN Thrown(BadRequest("updateShowTimeInfo", "PriceNotPositive"))
        ELSE IF validateTimeLogic(updated.start_time, updated.end_time, duration) # "ok"
        THEN Thrown(BadRequest("updateShowTimeInfo",
                    validateTimeLogic(updated.start_time, updated.end_time, duration)))
        ELSE IF changedTime(updated, existingShowTime)
                /\ hasOverLappingShowTime(updated.theater, updated.start_time,
                                          updated.end_time)
        THEN Thrown(BadRequest("updateShowTimeInfo", "Overlap"))
        ELSE [resp |-> Ok("updateShowTimeInfo"),
              showtimes |-> { IF s.id = id THEN updated ELSE s : s \in showtimes },
              nextShowTimeId |-> nextShowTimeId]

\* faulty variant of updateShowTimeInfo: the price is checked before the
\* movie of the showtime is looked up
updateShowTimeInfo_PriceFirst(id, updatesShowTime) ==
    IF id <= 0
    THEN {Thrown(BadRequest("updateShowTimeInfo", "InvalidShowTimeId"))}
    ELSE IF fetchShowTimeById(id) = {}
    THEN {Thrown(NotFound("updateShowTimeInfo", "ShowTimeNotFound"))}
    ELSE IF Defined(updatesShowTime.price) /\ Val(updatesShowTime.price) <= 0
    THEN {Thrown(BadRequest("updateShowTimeInfo", "PriceNotPositive"))}
    ELSE UNION {
        LET v == validateMovie(updatesShowTime)
        IN  IF v.kind = "NotFound"
            THEN {Thrown(NotFound("updateShowTimeInfo", "MovieNotFound"))}
            ELSE IF v.kind = "BadRequest"
            THEN {Thrown(BadRequest("updateShowTimeInfo", "TitleAndYearTogether"))}
            ELSE IF v.kind = "movie"
            THEN { UpdateWith(id, existingShowTime, updatesShowTime, movie.id,
                              movie.duration) : movie \in v.rows }
            ELSE IF fetchMovieById(existingShowTime.movie_id) = {}
            THEN {Thrown(NotFound("updateShowTimeInfo", "DurationUnknown"))}
            ELSE { UpdateWith(id, existingShowTime, updatesShowTime,
                              existingShowTime.movie_id, movie.duration) :
                       movie \in fetchMovieById(existingShowTime.movie_id) }
        : existingShowTime \in fetchShowTimeById(id) }

\* the outcomes of updateShowTimeInfo
updateShowTimeInfo(id, updatesShowTime) ==
    IF id <= 0
    THEN {Thrown(BadRequest("updateShowTimeInfo", "InvalidShowTimeId"))}
    ELSE IF fetchShowTimeById(id) = {}
    THEN {Thrown(NotFound("updateShowTimeInfo", "ShowTimeNotFound"))}
    ELSE UNION {
        LET v == validateMovie(updatesShowTime)
        IN  IF v.kind = "NotFound"
            THEN {Thrown(NotFound("updateShowTimeInfo", "MovieNotFound"))}
            ELSE IF v.kind = "BadRequest"
            THEN {Thrown(BadRequest("updateShowTimeInfo", "TitleAndYearTogether"))}
            ELSE IF v.kind = "movie"
            THEN { UpdateWith(id, existingShowTime, updatesShowTime, movie.id,
                              movie.duration) : movie \in v.rows }
            ELSE IF fetchMovieById(existingShowTime.movie_id) = {}
            THEN {Thrown(NotFound("updateShowTimeInfo", "DurationUnknown"))}
            ELSE { UpdateWith(id, existingShowTime, updatesShowTime,
                              existingShowTime.movie_id, movie.duration) :
                       movie \in fetchMovieById(existingShowTime.movie_id) }
        : existingShowTime \in fetchShowTimeById(id) }

UpdateShowTimeInfo(id, updatesShowTime) ==
    \E o \in updateShowTimeInfo(id, updatesShowTime) : Apply(o)

\* the outcomes of deleteShowTime
deleteShowTime(id) ==
    IF id <= 0
    THEN {Thrown(BadRequest("deleteShowTime", "InvalidShowTimeId"))}
    ELSE IF fetchShowTimeById(id) = {}
    THEN {Thrown(NotFound("deleteShowTime", "ShowTimeNotFound"))}
    ELSE {[resp |-> Ok("deleteShowTime"),
           showtimes |-> { s \in showtimes : s.id # id },
           nextShowTimeId |-> nextShowTimeId]}

DeleteShowTime(id) == \E o \in deleteShowTime(id) : Apply(o)

-----------------------------------------------------------------------------
(* MovieService, title-based (the "booking" variant) *)

findMovieByTitle(title) ==
    { m \in movies : toLowerCase(m.title) = toLowerCase(trim(title)) }

\* the outcomes of addNewMovie by title
Title_addNewMovie(movieData) ==
    LET movieTitle == Normalize(movieData.title)
    IN  IF findMovieByTitle(movieTitle) # {}
        THEN {MovieThrown(BadRequest("addNewMovie", "MovieExists"))}
        ELSE {[resp |-> Ok("addNewMovie"),
               movies |-> movies \cup
                    {[id |-> nextMovieId, title |-> movieTitle,
                      release_year |-> movieData.release_year,
                      duration |-> movieData.duration]},
               nextMovieId |-> nextMovieId + 1]}

AddNewMovieByTitle(movieData) ==
    \E o \in Title_addNewMovie(movieData) : ApplyMovie(o)

\* the outcomes of updateMovieInfo by title: every row of that title gets
\* the new title, year and duration
Title_updateMovieInfo(title, movieData) ==
    LET originalTitle == Normalize(title)
        updatedTitle == Normalize(movieData.title)
    IN  IF findMovieByTitle(originalTitle) = {}
        THEN {MovieThrown(NotFound("updateMovieInfo", "MovieNotFound"))}
        ELSE IF updatedTitle # originalTitle /\ findMovieByTitle(updatedTitle) # {}
        THEN {MovieThrown(BadRequest("updateMovieInfo", "MovieExists"))}
        ELSE {[resp |-> Ok("updateMovieInfo"),
               movies |-> { IF toLowerCase(m.title) = toLowerCase(originalTitle)
                            THEN [m EXCEPT !.title = updatedTitle,
                                           !.release_year = movieData.release_year,
                                           !.duration = movieData.duration]
                            ELSE m : m \in movies },
               nextMovieId |-> nextMovieId]}

UpdateMovieInfoByTitle(title, movieData) ==
    \E o \in Title_updateMovieInfo(title, movieData) : ApplyMovie(o)

\* the outcomes of deleteMovie by title
Title_deleteMovie(title) ==
    LET movieTitle == Normalize(title)
    IN  IF findMovieByTitle(movieTitle) = {}
        THEN {MovieThrown(NotFound("deleteMovie", "MovieNotFound"))}
        ELSE {[resp |-> Ok("deleteMovie"),
               movies |-> { m \in movies :
                                toLowerCase(m.title) # toLowerCase(trim(movieTitle)) },
               nextMovieId |-> nextMovieId]}

DeleteMovieByTitle(title) == \E o \in Title_deleteMovie(title) : ApplyMovie(o)

-----------------------------------------------------------------------------
(* TicketRepository (ticket table) *)

\* SELECT * FROM ticket WHERE showtime_id = $1, as a bag of rows
getTicketsForShowTime(showtimeId) ==
    LET rows == { r \in BagToSet(tickets) : r.showtime_id = showtimeId }
    IN  [r \in rows |-> tickets[r]]

\* faulty variant of isSeatTaken: the two query parameters bound in the
\* wrong order
Ticket_isSeatTaken_Swapped(showtimeId, seat_number) ==
    \E r \in BagToSet(tickets) :
        r.showtime_id = seat_number /\ r.seat_number = showtimeId

Ticket_isSeatTaken(showtimeId, seat_number) ==
    \E r \in BagToSet(tickets) :
        r.showtime_id = showtimeId /\ r.seat_number = seat_number

\* faulty variant of isTheaterFull: full only above the capacity
Ticket_isTheaterFull_Above(showtimeId) ==
    BagCardinality(getTicketsForShowTime(showtimeId)) > Capacity

Ticket_isTheaterFull(showtimeId) ==
    BagCardinality(getTicketsForShowTime(showtimeId)) = Capacity

-----------------------------------------------------------------------------
(* BookingRepository (bookings table) *)

\* SELECT * FROM bookings WHERE "showtimeId" = $1, as a bag of rows
getBookingsForShowTime(showtimeId) ==
    LET rows == { r \in BagToSet(bookings) : r.showtimeId = showtimeId }
    IN  [r \in rows |-> bookings[r]]

\* faulty variant of isSeatTaken: the two query parameters bound in the
\* wrong order
Booking_isSeatTaken_Swapped(showtimeId, seatNumber) ==
    \E r \in BagToSet(bookings) :
        r.showtimeId = seatNumber /\ r.seatNumber = showtimeId

Booking_isSeatTaken(showtimeId, seatNumber) ==
    \E r \in BagToSet(bookings) :
        r.showtimeId = showtimeId /\ r.seatNumber = seatNumber

Booking_isTheaterFull(showtimeId) ==
    BagCardinality(getBookingsForShowTime(showtimeId)) >= Capacity

-----------------------------------------------------------------------------
(* TicketService.addNewTicket and BookingService.addNewBooking, one request
   at a time *)

\* faulty variant of Ticket_duplicate: a customer who holds any seat of the
\* showtime counts as a duplicate
Ticket_duplicate_AnySeat(showtimeId, customerName, seat_number) ==
    \E t \in BagToSet(getTicketsForShowTime(showtimeId)) :
        toLowerCase(t.customer_name) = customerName

\* allTickets.find(same customer and same seat)
Ticket_duplicate(showtimeId, customerName, seat_number) ==
    \E t \in BagToSet(getTicketsForShowTime(showtimeId)) :
        toLowerCase(t.customer_name) = customerName /\ t.seat_number = seat_number

\* allBookings.find(same user and same seat)
Booking_duplicate(showtimeId, userId, seatNumber) ==
    \E b \in BagToSet(getBookingsForShowTime(showtimeId)) :
        b.userId = userId /\ b.seatNumber = seatNumber

\* the outcomes of addNewTicket: the response and the ticket table
addNewTicket(ticketData) ==
    LET movieName == Normalize(ticketData.movie_title)
        theaterName == Normalize(ticketData.movie_theater)
        customerName == Normalize(ticketData.customer_name)
        seat_number == ticketData.seat_number
        found == findShowTimeByTheaterAndStartTime(theaterName,
                                                  ticketData.movie_start_time)
        Refused(m) == [resp |-> BadRequest("addNewTicket", m), tickets |-> tickets]
        Missing(m) == [resp |-> NotFound("addNewTicket", m), tickets |-> tickets]
        WithMovie(showTime, movie) ==
            IF Normalize(movie.title) # movieName
            THEN Refused("MovieMismatch")
            ELSE IF Ticket_isTheaterFull(showTime.id)
            THEN Refused("TheaterFull")
            ELSE IF Ticket_duplicate(showTime.id, customerName, seat_number)
            THEN Refused("AlreadyBooked")
            ELSE IF Ticket_isSeatTaken(showTime.id, seat_number)
            THEN Refused("SeatTaken")
            ELSE [resp |-> Ok("addNewTicket"),
                  tickets |-> tickets (+) SetToBag({
                        [movie_id |-> movie.id, showtime_id |-> showTime.id,
                         seat_number |-> seat_number,
                         customer_name |-> customerName]})]
    IN  IF found = {}
        THEN {Missing("ShowTimeNotFound")}
        ELSE UNION {
            IF fetchMovieById(showTime.movie_id) = {}
            THEN {Missing("MovieNotFound")}
            ELSE { WithMovie(showTime, movie) :
                       movie \in fetchMovieById(showTime.movie_id) }
            : showTime \in found }

AddNewTicket(ticketData) ==
    \E o \in addNewTicket(ticketData) :
        /\ tickets' = o.tickets
        /\ resp' = o.resp
        /\ UNCHANGED <<variant, movies, nextMovieId, showtimes, nextShowTimeId,
                       bookings, procs>>

\* faulty variant of addNewBooking: the seat-taken check made before the
\* duplicate-party check
addNewBooking_SeatFirst(data) ==
    LET Refused(m) == [resp |-> BadRequest("addNewBooking", m), bookings |-> bookings]
        Missing(m) == [resp |-> NotFound("addNewBooking", m), bookings |-> bookings]
    IN  IF fetchShowTimeById(data.showtimeId) = {}
        THEN {Missing("ShowTimeNotFound")}
        ELSE {
            IF fetchMovieById(showtime.movie_id) = {}
            THEN Missing("MovieNotFound")
            ELSE IF Booking_isTheaterFull(data.showtimeId)
            THEN Refused("TheaterFull")
            ELSE IF Booking_isSeatTaken(data.showtimeId, data.seatNumber)
            THEN Refused("SeatTaken")
            ELSE IF Booking_duplicate(data.showtimeId, data.userId, data.seatNumber)
            THEN Refused("AlreadyBooked")
            ELSE [resp |-> Ok("addNewBooking"),
                  bookings |-> bookings (+) SetToBag({
                        [showtimeId |-> data.showtimeId,
                         seatNumber |-> data.seatNumber, userId |-> data.userId]})]
            : showtime \in fetchShowTimeById(data.showtimeId) }

\* faulty variant of addNewBooking: the movie of the showtime is not looked up
addNewBooking_AnyMovie(data) ==
    LET Refused(m) == [resp |-> BadRequest("addNewBooking", m), bookings |-> bookings]
        Missing(m) == [resp |-> NotFound("addNewBooking", m), bookings |-> bookings]
    IN  IF fetchShowTimeById(data.showtimeId) = {}
        THEN {Missing("ShowTimeNotFound")}
        ELSE {
            IF Booking_isTheaterFull(data.showtimeId)
            THEN Refused("TheaterFull")
            ELSE IF Booking_duplicate(data.showtimeId, data.userId, data.seatNumber)
            THEN Refused("AlreadyBooked")
            ELSE IF Booking_isSeatTaken(data.showtimeId, data.seatNumber)
            THEN Refused("SeatTaken")
            ELSE [resp |-> Ok("addNewBooking"),
                  bookings |-> bookings (+) SetToBag({
                        [showtimeId |-> data.showtimeId,
                         seatNumber |-> data.seatNumber, userId |-> data.userId]})]
            : showtime \in fetchShowTimeById(data.showtimeId) }

\* the outcomes of addNewBooking: the response and the bookings table
addNewBooking(data) ==
    LET Refused(m) == [resp |-> BadRequest("addNewBooking", m), bookings |-> bookings]
        Missing(m) == [resp |-> NotFound("addNewBooking", m), bookings |-> bookings]
    IN  IF fetchShowTimeById(data.showtimeId) = {}
        THEN {Missing("ShowTimeNotFound")}
        ELSE {
            IF fetchMovieById(showtime.movie_id) = {}
            THEN Missing("MovieNotFound")
            ELSE IF Booking_isTheaterFull(data.showtimeId)
            THEN Refused("TheaterFull")
            ELSE IF Booking_duplicate(data.showtimeId, data.userId, data.seatNumber)
            THEN Refused("AlreadyBooked")
            ELSE IF Booking_isSeatTaken(data.showtimeId, data.seatNumber)
            THEN Refused("SeatTaken")
            ELSE [resp |-> Ok("addNewBooking"),
                  bookings |-> bookings (+) SetToBag({
                        [showtimeId |-> data.showtimeId,
                         seatNumber |-> data.seatNumber, userId |-> data.userId]})]
            : showtime \in fetchShowTimeById(data.showtimeId) }

AddNewBooking(data) ==
    \E o \in addNewBooking(data) :
        /\ bookings' = o.bookings
        /\ resp' = o.resp
        /\ UNCHANGED <<variant, movies, nextMovieId, showtimes, nextShowTimeId,
                       tickets, procs>>

-----------------------------------------------------------------------------
(* Requests *)

MovieDtos ==
    [title : RawTitles, release_year : Years, duration : Durations]

UpdateMovieDtos ==
    [title : Option(RawTitles), release_year : Option(Years),
     duration : Option(Durations)]

CreateShowTimeDtos ==
    [movie_title : RawTitles, movie_release_year : Years, theater : RawTheaters,
     start_time : Times, end_time : Times, price : Prices]

UpdateShowTimeDtos ==
    [movie_title : Option(RawTitles), movie_release_year : Option(Years),
     theater : Option(RawTheaters), start_time : Option(Times),
     end_time : Option(Times), price : Option(Prices)]

NoResp == [op |-> "none", status |-> "Ok", msg |-> "ok"]

-----------------------------------------------------------------------------
(* The catalog and the scheduler, one request at a time *)

\* the catalog after addNewMovie of " Up" (30 minutes) and "hi" (60 minutes)
Catalog ==
    { [id |-> 1, title |-> <<"u", "p">>, release_year |-> 2009, duration |-> 30],
      [id |-> 2, title |-> <<"h", "i">>, release_year |-> 2009, duration |-> 60] }

Init ==
    /\ variant = "ticket"
    /\ movies = Catalog
    /\ nextMovieId = 3
    /\ showtimes = {}
    /\ nextShowTimeId = 1
    /\ tickets = EmptyBag
    /\ bookings = EmptyBag
    /\ resp = NoResp
    /\ procs = <<>>

\* the dto with no field set
EmptyUpdate ==
    [movie_title |-> <<>>, movie_release_year |-> <<>>, theater |-> <<>>,
     start_time |-> <<>>, end_time |-> <<>>, price |-> <<>>]

\* For an id that resolves to no showtime the response does not depend on
\* the dto, so one dto stands for all of them.
UpdateDtosFor(id) ==
    IF fetchShowTimeById(id) = {} THEN {EmptyUpdate} ELSE UpdateShowTimeDtos

Next ==
    \/ \E dto \in CreateShowTimeDtos : AddNewShowTime(dto)
    \/ \E id \in 0..MaxShowTimeId : \E dto \in UpdateDtosFor(id) :
            UpdateShowTimeInfo(id, dto)
    \/ \E id \in 0..MaxShowTimeId : DeleteShowTime(id)

Spec == Init /\ [][Next]_vars

-----------------------------------------------------------------------------
(* The booking engines, one request at a time.  Showtime 1 is warmed up:   *)
(* its seats 1 .. Capacity - FreeSeats were booked one by one by one party *)
(* (customer "al" / user "u1"); showtime 2 is fresh.                       *)

RawCustomers == { <<" ", "A", "l">>, <<"b", "o">> }
UserIds == { "u1", "u2" }

\* seat numbers asked for: the last FreeSeats seats
SeatInputs == (Capacity - FreeSeats + 1)..Capacity

CreateTicketDtos ==
    [movie_title : RawTitles, movie_theater : RawTheaters,
     movie_start_time : Times, customer_name : RawCustomers,
     seat_number : SeatInputs]

BookingDtos ==
    [showtimeId : 1..(MaxShowTimeId + 1), seatNumber : SeatInputs, userId : UserIds]

Schedule ==
    { [id |-> 1, movie_id |-> 1, theater |-> <<"a">>,
       start_time |-> <<FirstHour, 0>>, end_time |-> <<FirstHour, 30>>,
       price |-> 10],
      [id |-> 2, movie_id |-> 2, theater |-> <<"b">>,
       start_time |-> <<FirstHour, 0>>, end_time |-> <<FirstHour + 1, 0>>,
       price |-> 10] }

WarmTickets ==
    SetToBag({ [movie_id |-> 1, showtime_id |-> 1, seat_number |-> n,
                customer_name |-> <<"a", "l">>] : n \in 1..(Capacity - FreeSeats) })

WarmBookings ==
    SetToBag({ [showtimeId |-> 1, seatNumber |-> n, userId |-> "u1"] :
                n \in 1..(Capacity - FreeSeats) })

InitBooking ==
    /\ variant \in {"ticket", "booking"}
    /\ movies = Catalog
    /\ nextMovieId = 3
    /\ showtimes = Schedule
    /\ nextShowTimeId = 3
    /\ tickets = IF variant = "ticket" THEN WarmTickets ELSE EmptyBag
    /\ bookings = IF variant = "booking" THEN WarmBookings ELSE EmptyBag
    /\ resp = NoResp
    /\ procs = <<>>

NextBooking ==
    \/ variant = "ticket" /\ \E dto \in CreateTicketDtos : AddNewTicket(dto)
    \/ variant = "booking" /\ \E dto \in BookingDtos : AddNewBooking(dto)
    \/ variant = "ticket" /\ \E id \in MovieIds : DeleteMovie(id)
    \/ variant = "booking" /\ \E t \in RawTitles : DeleteMovieByTitle(t)

SpecBooking == InitBooking /\ [][NextBooking]_vars

-----------------------------------------------------------------------------
(* The whole application, one request at a time: the catalog, the          *)
(* scheduler and the booking engine of the variant.  The "ticket" variant  *)
(* starts with empty tables.  The scheduler of the "booking" variant is    *)
(* its own service, so that variant starts with one movie and one showtime *)
(* of it on the schedule.                                                  *)

OfficeTitles == { <<" ", "U", "p">>, <<"h", "i">> }
OfficeTheaters == { <<" ", "A", " ">> }

OfficeMovieDtos ==
    [title : OfficeTitles, release_year : Years, duration : Durations]

OfficeUpdateMovieDtos ==
    [title : Option(OfficeTitles), release_year : {<<>>},
     duration : Option(Durations)]

\* the windows asked for start before they end
OfficeWindows == { w \in Times \X Times : StringGreater(w[2], w[1]) }

OfficeShowTimeDtos ==
    { [movie_title |-> t, movie_release_year |-> y, theater |-> th,
       start_time |-> w[1], end_time |-> w[2], price |-> 10] :
        t \in OfficeTitles, y \in Years, th \in OfficeTheaters, w \in OfficeWindows }

\* an update names a movie (title and year), a window (start and end), both
\* or neither
OfficeUpdateShowTimeDtos ==
    { d \in [movie_title : Option(OfficeTitles), movie_release_year : Option(Years),
             theater : {<<>>}, start_time : Option(Times),
             end_time : Option(Times), price : {<<>>}] :
        /\ Defined(d.movie_title) <=> Defined(d.movie_release_year)
        /\ Defined(d.start_time) <=> Defined(d.end_time)
        /\ Defined(d.start_time) => <<Val(d.start_time), Val(d.end_time)>> \in OfficeWindows }

OfficeTicketDtos ==
    [movie_title : OfficeTitles, movie_theater : OfficeTheaters,
     movie_start_time : Times, customer_name : {<<"b", "o">>},
     seat_number : {Capacity}]

OfficeBookingDtos ==
    [showtimeId : ShowTimeIds, seatNumber : {Capacity}, userId : {"u1"}]

InitOffice ==
    /\ variant \in {"ticket", "booking"}
    /\ movies = IF variant = "ticket" THEN {} ELSE { m \in Catalog : m.id = 1 }
    /\ nextMovieId = IF variant = "ticket" THEN 1 ELSE 2
    /\ showtimes = IF variant = "ticket" THEN {} ELSE { s \in Schedule : s.id = 1 }
    /\ nextShowTimeId = IF variant = "ticket" THEN 1 ELSE 2
    /\ tickets = EmptyBag
    /\ bookings = EmptyBag
    /\ resp = NoResp
    /\ procs = <<>>

NextOffice ==
    \/ variant = "ticket" /\ \E dto \in OfficeMovieDtos : AddNewMovie(dto)
    \/ variant = "ticket" /\ \E id \in 0..MaxMovieId :
            \E dto \in OfficeUpdateMovieDtos : UpdateMovieInfo(id, dto)
    \/ variant = "ticket" /\ \E id \in 0..MaxMovieId : DeleteMovie(id)
    \/ variant = "ticket" /\ \E dto \in OfficeShowTimeDtos : AddNewShowTime(dto)
    \/ variant = "ticket" /\ \E id \in 0..MaxShowTimeId :
            \E dto \in OfficeUpdateShowTimeDtos : UpdateShowTimeInfo(id, dto)
    \/ variant = "ticket" /\ \E id \in 0..MaxShowTimeId : DeleteShowTime(id)
    \/ variant = "ticket" /\ \E dto \in OfficeTicketDtos : AddNewTicket(dto)
    \/ variant = "booking" /\ \E dto \in OfficeMovieDtos : AddNewMovieByTitle(dto)
    \/ variant = "booking" /\ \E t \in OfficeTitles :
            \E dto \in OfficeMovieDtos : UpdateMovieInfoByTitle(t, dto)
    \/ variant = "booking" /\ \E t \in OfficeTitles : DeleteMovieByTitle(t)
    \/ variant = "booking" /\ \E dto \in OfficeBookingDtos : AddNewBooking(dto)

SpecOffice == InitOffice /\ [][NextOffice]_vars

-----------------------------------------------------------------------------
(* The application with a database that may fail.  Every repository write  *)
(* wraps its query in try / catch and throws InternalServerErrorException  *)
(* when the query rejects; no service catches it.  A failed statement      *)
(* writes no row; a failed INSERT may or may not have drawn the next       *)
(* serial id.                                                              *)

\* faulty variant of WriteFailed: the service swallows the error of the write
WriteFailed_Masked(op) == [op |-> op, status |-> "Ok", msg |-> "ok"]

\* the response of a request whose repository write has thrown
WriteFailed(op) == [op |-> op, status |-> "InternalServerError", msg |-> "WriteFailed"]

\* the outcomes that reach the repository write
Written(outs) == { o \in outs : o.resp.status = "Ok" }

\* the outcomes of a request on the movie table when its write may fail
MovieWrites(outs) ==
    outs \cup UNION { { [resp |-> WriteFailed(o.resp.op), movies |-> movies,
                           nextMovieId |-> n] :
                            n \in {nextMovieId, o.nextMovieId} } :
                       o \in Written(outs) }

\* the outcomes of a request on the show_time table when its write may fail
ShowTimeWrites(outs) ==
    outs \cup UNION { { [resp |-> WriteFailed(o.resp.op), showtimes |-> showtimes,
                           nextShowTimeId |-> n] :
                            n \in {nextShowTimeId, o.nextShowTimeId} } :
                       o \in Written(outs) }

\* the outcomes of addNewTicket when its write may fail
TicketWrites(outs) ==
    outs \cup { [resp |-> WriteFailed(o.resp.op), tickets |-> tickets] :
                    o \in Written(outs) }

\* the outcomes of addNewBooking when its write may fail
BookingWrites(outs) ==
    outs \cup { [resp |-> WriteFailed(o.resp.op), bookings |-> bookings] :
                    o \in Written(outs) }

ApplyTicket(o) ==
    /\ tickets' = o.tickets
    /\ resp' = o.resp
    /\ UNCHANGED <<variant, movies, nextMovieId, showtimes, nextShowTimeId,
                   bookings, procs>>

ApplyBooking(o) ==
    /\ bookings' = o.bookings
    /\ resp' = o.resp
    /\ UNCHANGED <<variant, movies, nextMovieId, showtimes, nextShowTimeId,
                   tickets, procs>>

OutageMovieDtos == { d \in OfficeMovieDtos : d.title = <<" ", "U", "p">> }

OutageUpdateMovieDtos ==
    { d \in OfficeUpdateMovieDtos : ~Defined(d.title) /\ Defined(d.duration) }

OutageShowTimeDtos == { d \in OfficeShowTimeDtos : d.movie_title = <<" ", "U", "p">> }

OutageUpdateShowTimeDtos ==
    { d \in OfficeUpdateShowTimeDtos : ~Defined(d.movie_title) }

OutageTicketDtos == { d \in OfficeTicketDtos : d.movie_title = <<" ", "U", "p">> }

NextOutage ==
    \/ variant = "ticket" /\ \E dto \in OutageMovieDtos :
            \E o \in MovieWrites(addNewMovie(dto)) : ApplyMovie(o)
    \/ variant = "ticket" /\ \E id \in MovieIds : \E dto \in OutageUpdateMovieDtos :
            \E o \in MovieWrites(updateMovieInfo(id, dto)) : ApplyMovie(o)
    \/ variant = "ticket" /\ \E id \in MovieIds :
            \E o \in MovieWrites(deleteMovie(id)) : ApplyMovie(o)
    \/ variant = "ticket" /\ \E dto \in OutageShowTimeDtos :
            \E o \in ShowTimeWrites(addNewShowTime(dto)) : Apply(o)
    \/ variant = "ticket" /\ \E id \in ShowTimeIds :
            \E dto \in OutageUpdateShowTimeDtos :
                \E o \in ShowTimeWrites(updateShowTimeInfo(id, dto)) : Apply(o)
    \/ variant = "ticket" /\ \E id \in ShowTimeIds :
            \E o \in ShowTimeWrites(deleteShowTime(id)) : Apply(o)
    \/ variant = "ticket" /\ \E dto \in OutageTicketDtos :
            \E o \in TicketWrites(addNewTicket(dto)) : ApplyTicket(o)
    \/ variant = "booking" /\ \E dto \in OfficeMovieDtos :
            \E o \in MovieWrites(Title_addNewMovie(dto)) : ApplyMovie(o)
    \/ variant = "booking" /\ \E t \in OfficeTitles : \E dto \in OfficeMovieDtos :
            \E o \in MovieWrites(Title_updateMovieInfo(t, dto)) : ApplyMovie(o)
    \/ variant = "booking" /\ \E t \in OfficeTitles :
            \E o \in MovieWrites(Title_deleteMovie(t)) : ApplyMovie(o)
    \/ variant = "booking" /\ \E dto \in OfficeBookingDtos :
            \E o \in BookingWrites(addNewBooking(dto)) : ApplyBooking(o)

SpecOutage == InitOffice /\ [][NextOutage]_vars

-----------------------------------------------------------------------------
(* Booking requests in flight together: every await of addNewTicket and    *)
(* addNewBooking is a step of its own.  A request p keeps its dto and the  *)
(* rows it has fetched in procs[p]; each p makes one request.              *)

Idle == [pc |-> "idle", dto |-> <<>>, showtime |-> <<>>, movie |-> <<>>]

\* request p ends with response r
Finish(p, r) ==
    /\ procs' = [procs EXCEPT ![p].pc = "done"]
    /\ resp' = r

\* request p goes on to the step at
Goto(p, at) ==
    /\ procs' = [procs EXCEPT ![p].pc = at]
    /\ UNCHANGED resp

Ticket_FetchShowTime(p, ticketData) ==
    LET found == findShowTimeByTheaterAndStartTime(
                    Normalize(ticketData.movie_theater), ticketData.movie_start_time)
    IN  /\ procs[p].pc = "idle"
        /\ UNCHANGED <<variant, movies, nextMovieId, showtimes, nextShowTimeId,
                       tickets, bookings>>
        /\ IF found = {}
           THEN Finish(p, NotFound("addNewTicket", "ShowTimeNotFound"))
           ELSE \E showTime \in found :
                /\ procs' = [procs EXCEPT ![p] =
                        [pc |-> "fetchMovie", dto |-> <<ticketData>>,
                         showtime |-> <<showTime>>, movie |-> <<>>]]
                /\ UNCHANGED resp

Ticket_FetchMovie(p) ==
    /\ procs[p].pc = "fetchMovie"
    /\ variant = "ticket"
    /\ UNCHANGED <<variant, movies, nextMovieId, showtimes, nextShowTimeId,
                   tickets, bookings>>
    /\ LET found == fetchMovieById(Val(procs[p].showtime).movie_id)
       IN  IF found = {}
           THEN Finish(p, NotFound("addNewTicket", "MovieNotFound"))
           ELSE \E movie \in found :
                IF Normalize(movie.title) # Normalize(Val(procs[p].dto).movie_title)
                THEN Finish(p, BadRequest("addNewTicket", "MovieMismatch"))
                ELSE /\ procs' = [procs EXCEPT ![p].pc = "isTheaterFull",
                                                ![p].movie = <<movie>>]
                     /\ UNCHANGED resp

Ticket_CheckFull(p) ==
    /\ procs[p].pc = "isTheaterFull"
    /\ variant = "ticket"
    /\ UNCHANGED <<variant, movies, nextMovieId, showtimes, nextShowTimeId,
                   tickets, bookings>>
    /\ IF Ticket_isTheaterFull(Val(procs[p].showtime).id)
       THEN Finish(p, BadRequest("addNewTicket", "TheaterFull"))
       ELSE Goto(p, "getAll")

Ticket_CheckDuplicate(p) ==
    /\ procs[p].pc = "getAll"
    /\ variant = "ticket"
    /\ UNCHANGED <<variant, movies, nextMovieId, showtimes, nextShowTimeId,
                   tickets, bookings>>
    /\ IF Ticket_duplicate(Val(procs[p].showtime).id,
                           Normalize(Val(procs[p].dto).customer_name),
                           Val(procs[p].dto).seat_number)
       THEN Finish(p, BadRequest("addNewTicket", "AlreadyBooked"))
       ELSE Goto(p, "isSeatTaken")

Ticket_CheckSeat(p) ==
    /\ procs[p].pc = "isSeatTaken"
    /\ variant = "ticket"
    /\ UNCHANGED <<variant, movies, nextMovieId, showtimes, nextShowTimeId,
                   tickets, bookings>>
    /\ IF Ticket_isSeatTaken(Val(procs[p].showtime).id, Val(procs[p].dto).seat_number)
       THEN Finish(p, BadRequest("addNewTicket", "SeatTaken"))
       ELSE Goto(p, "insert")

\* faulty variant of the insert step: the table refuses a second row for a
\* showtime and seat, as a unique constraint would
Ticket_Insert_Unique(p) ==
    /\ procs[p].pc = "insert"
    /\ variant = "ticket"
    /\ IF Ticket_isSeatTaken(Val(procs[p].showtime).id, Val(procs[p].dto).seat_number)
       THEN /\ Finish(p, BadRequest("addNewTicket", "SeatTaken"))
            /\ UNCHANGED tickets
       ELSE /\ tickets' = tickets (+) SetToBag({
                    [movie_id |-> Val(procs[p].movie).id,
                     showtime_id |-> Val(procs[p].showtime).id,
                     seat_number |-> Val(procs[p].dto).seat_number,
                     customer_name |-> Normalize(Val(procs[p].dto).customer_name)]})
            /\ Finish(p, Ok("addNewTicket"))
    /\ UNCHANGED <<variant, movies, nextMovieId, showtimes, nextShowTimeId,
                   bookings>>

Ticket_Insert(p) ==
    /\ procs[p].pc = "insert"
    /\ variant = "ticket"
    /\ tickets' = tickets (+) SetToBag({
            [movie_id |-> Val(procs[p].movie).id,
             showtime_id |-> Val(procs[p].showtime).id,
             seat_number |-> Val(procs[p].dto).seat_number,
             customer_name |-> Normalize(Val(procs[p].dto).customer_name)]})
    /\ Finish(p, Ok("addNewTicket"))
    /\ UNCHANGED <<variant, movies, nextMovieId, showtimes, nextShowTimeId,
                   bookings>>

Booking_FetchShowTime(p, data) ==
    LET found == fetchShowTimeById(data.showtimeId)
    IN  /\ procs[p].pc = "idle"
        /\ UNCHANGED <<variant, movies, nextMovieId, showtimes, nextShowTimeId,
                       tickets, bookings>>
        /\ IF found = {}
           THEN Finish(p, NotFound("addNewBooking", "ShowTimeNotFound"))
           ELSE \E showtime \in found :
                /\ procs' = [procs EXCEPT ![p] =
                        [pc |-> "fetchMovie", dto |-> <<data>>,
                         showtime |-> <<showtime>>, movie |-> <<>>]]
                /\ UNCHANGED resp

Booking_FetchMovie(p) ==
    /\ procs[p].pc = "fetchMovie"
    /\ variant = "booking"
    /\ UNCHANGED <<variant, movies, nextMovieId, showtimes, nextShowTimeId,
                   tickets, bookings>>
    /\ LET found == fetchMovieById(Val(procs[p].showtime).movie_id)
       IN  IF found = {}
           THEN Finish(p, NotFound("addNewBooking", "MovieNotFound"))
           ELSE \E movie \in found :
                /\ procs' = [procs EXCEPT ![p].pc = "isTheaterFull",
                                           ![p].movie = <<movie>>]
                /\ UNCHANGED resp

Booking_CheckFull(p) ==
    /\ procs[p].pc = "isTheaterFull"
    /\ variant = "booking"
    /\ UNCHANGED <<variant, movies, nextMovieId, showtimes, nextShowTimeId,
                   tickets, bookings>>
    /\ IF Booking_isTheaterFull(Val(procs[p].dto).showtimeId)
       THEN Finish(p, BadRequest("addNewBooking", "TheaterFull"))
       ELSE Goto(p, "getAll")

Booking_CheckDuplicate(p) ==
    /\ procs[p].pc = "getAll"
    /\ variant = "booking"
    /\ UNCHANGED <<variant, movies, nextMovieId, showtimes, nextShowTimeId,
                   tickets, bookings>>
    /\ IF Booking_duplicate(Val(procs[p].dto).showtimeId, Val(procs[p].dto).userId,
                            Val(procs[p].dto).seatNumber)
       THEN Finish(p, BadRequest("addNewBooking", "AlreadyBooked"))
       ELSE Goto(p, "isSeatTaken")

Booking_CheckSeat(p) ==
    /\ procs[p].pc = "isSeatTaken"
    /\ variant = "booking"
    /\ UNCHANGED <<variant, movies, nextMovieId, showtimes, nextShowTimeId,
                   tickets, bookings>>
    /\ IF Booking_isSeatTaken(Val(procs[p].dto).showtimeId,
                              Val(procs[p].dto).seatNumber)
       THEN Finish(p, BadRequest("addNewBooking", "SeatTaken"))
       ELSE Goto(p, "insert")

Booking_Insert(p) ==
    /\ procs[p].pc = "insert"
    /\ variant = "booking"
    /\ bookings' = bookings (+) SetToBag({
            [showtimeId |-> Val(procs[p].dto).showtimeId,
             seatNumber |-> Val(procs[p].dto).seatNumber,
             userId |-> Val(procs[p].dto).userId]})
    /\ Finish(p, Ok("addNewBooking"))
    /\ UNCHANGED <<variant, movies, nextMovieId, showtimes, nextShowTimeId,
                   tickets>>

Procs == 1..MaxProcs

\* the requests raced: for the warmed-up showtime, by either party
RaceTicketDtos ==
    { d \in CreateTicketDtos :
        /\ Normalize(d.movie_theater) = <<"a">>
        /\ d.movie_start_time = <<FirstHour, 0>>
        /\ Normalize(d.movie_title) = <<"u", "p">> }

RaceBookingDtos == { d \in BookingDtos : d.showtimeId = 1 }

InitRace ==
    /\ variant \in {"ticket", "booking"}
    /\ movies = Catalog
    /\ nextMovieId = 3
    /\ showtimes = Schedule
    /\ nextShowTimeId = 3
    /\ tickets = IF variant = "ticket" THEN WarmTickets ELSE EmptyBag
    /\ bookings = IF variant = "booking" THEN WarmBookings ELSE EmptyBag
    /\ resp = NoResp
    /\ procs = [p \in Procs |-> Idle]

NextRace ==
    \E p \in Procs :
        \/ variant = "ticket" /\ \E dto \in RaceTicketDtos : Ticket_FetchShowTime(p, dto)
        \/ Ticket_FetchMovie(p)
        \/ Ticket_CheckFull(p)
        \/ Ticket_CheckDuplicate(p)
        \/ Ticket_CheckSeat(p)
        \/ Ticket_Insert(p)
        \/ variant = "booking" /\ \E dto \in RaceBookingDtos : Booking_FetchShowTime(p, dto)
        \/ Booking_FetchMovie(p)
        \/ Booking_CheckFull(p)
        \/ Booking_CheckDuplicate(p)
        \/ Booking_CheckSeat(p)
        \/ Booking_Insert(p)

SpecRace == InitRace /\ [][NextRace]_vars

-----------------------------------------------------------------------------
(* Properties.  A property of every request of a kind is stated on the     *)
(* state the request is made in, over the outcomes the request can have.   *)

Minutes(t) == t[1] * 60 + t[2]

\* the bookings of a showtime, and who holds a seat, in either table
TicketCount(st) ==
    BagCardinality([r \in { q \in BagToSet(tickets) : q.showtime_id = st }
                        |-> tickets[r]])
BookingCount(st) ==
    BagCardinality([r \in { q \in BagToSet(bookings) : q.showtimeId = st }
                        |-> bookings[r]])
TicketHeld(st, seat) ==
    \E r \in BagToSet(tickets) : r.showtime_id = st /\ r.seat_number = seat
BookingHeld(st, seat) ==
    \E r \in BagToSet(bookings) : r.showtimeId = st /\ r.seatNumber = seat
TicketHeldBy(st, seat, who) ==
    \E r \in BagToSet(tickets) :
        r.showtime_id = st /\ r.seat_number = seat /\ r.customer_name = who
BookingHeldBy(st, seat, who) ==
    \E r \in BagToSet(bookings) :
        r.showtimeId = st /\ r.seatNumber = seat /\ r.userId = who

\* the showtimes a ticket request names, and the movies of a showtime
TicketShowTimes(dto) ==
    { s \in showtimes : /\ s.theater = Normalize(dto.movie_theater)
                         /\ s.start_time = dto.movie_start_time }
BookingShowTimes(dto) == { s \in showtimes : s.id = dto.showtimeId }
MoviesOf(s) == { m \in movies : m.id = s.movie_id }

\* a ticket request that passes the showtime, movie and title checks
TicketResolves(dto) ==
    /\ TicketShowTimes(dto) # {}
    /\ \A s \in TicketShowTimes(dto) :
            /\ MoviesOf(s) # {}
            /\ \A m \in MoviesOf(s) : m.title = Normalize(dto.movie_title)
\* a booking request that passes the showtime and movie checks
BookingResolves(dto) ==
    /\ BookingShowTimes(dto) # {}
    /\ \A s \in BookingShowTimes(dto) : MoviesOf(s) # {}

\* C1: with booking requests run one at a time, no two stored bookings of
\* one showtime have the same seat number.
C1_NoDoubleBooking ==
    /\ \A r \in BagToSet(tickets) :
            /\ tickets[r] = 1
            /\ \A q \in BagToSet(tickets) :
                    q.showtime_id = r.showtime_id /\ q.seat_number = r.seat_number
                        => q = r
    /\ \A r \in BagToSet(bookings) :
            /\ bookings[r] = 1
            /\ \A q \in BagToSet(bookings) :
                    q.showtimeId = r.showtimeId /\ q.seatNumber = r.seatNumber
                        => q = r

\* a second party asked for a seat of showtime 1 that is held, and was
\* refused; the same seat number is also booked on showtime 2
C1_Witness ==
    /\ resp = BadRequest("addNewTicket", "SeatTaken")
    /\ \E n \in SeatInputs :
            /\ TicketHeldBy(1, n, <<"b", "o">>) \/ TicketHeldBy(1, n, <<"a", "l">>)
            /\ TicketHeld(2, n)
    /\ TicketCount(1) > Capacity - FreeSeats

\* the overlap predicate on two windows [S, E) and [s, e)
Overlaps(S, E, s, e) ==
    \/ Minutes(S) >= Minutes(s) /\ Minutes(S) < Minutes(e)
    \/ Minutes(E) > Minutes(s) /\ Minutes(E) <= Minutes(e)
    \/ Minutes(S) <= Minutes(s) /\ Minutes(E) >= Minutes(e)

\* C2: after any sequence of add, update and delete requests run one at a
\* time, no two stored showtimes with the same normalized theater name
\* overlap.
C2_NoOverlap ==
    \A a \in showtimes : \A b \in showtimes :
        a.id # b.id /\ Normalize(a.theater) = Normalize(b.theater)
            => ~ Overlaps(a.start_time, a.end_time, b.start_time, b.end_time)

\* two showtimes back to back in one theater, one of them just updated
C2_Witness ==
    /\ resp = Ok("updateShowTimeInfo")
    /\ \E a \in showtimes : \E b \in showtimes :
            /\ a.id # b.id
            /\ Normalize(a.theater) = Normalize(b.theater)
            /\ a.end_time = b.start_time

\* C3: with booking requests run one at a time and seat numbers in
\* 1..Capacity, a showtime never holds more than Capacity bookings, and a
\* request for a showtime that holds exactly Capacity bookings (a request
\* that resolves its showtime and movie) is refused with "theater is full"
\* whatever seat it asks for, and stores nothing.
C3_CapacityEnforced ==
    /\ \A s \in showtimes :
            TicketCount(s.id) <= Capacity /\ BookingCount(s.id) <= Capacity
    /\ variant = "ticket" =>
          \A dto \in CreateTicketDtos :
            (/\ TicketResolves(dto)
             /\ \A s \in TicketShowTimes(dto) : TicketCount(s.id) = Capacity)
            => \A o \in addNewTicket(dto) :
                    /\ o.resp = BadRequest("addNewTicket", "TheaterFull")
                    /\ o.tickets = tickets
    /\ variant = "booking" =>
          \A dto \in BookingDtos :
            (/\ BookingResolves(dto)
             /\ \A s \in BookingShowTimes(dto) : BookingCount(s.id) = Capacity)
            => \A o \in addNewBooking(dto) :
                    /\ o.resp = BadRequest("addNewBooking", "TheaterFull")
                    /\ o.bookings = bookings

\* showtime 1 holds Capacity tickets and a further request for it was
\* refused as full
C3_Witness ==
    /\ TicketCount(1) = Capacity
    /\ resp = BadRequest("addNewTicket", "TheaterFull")
    /\ \E dto \in CreateTicketDtos :
            /\ TicketResolves(dto)
            /\ \A s \in TicketShowTimes(dto) : s.id = 1
            /\ \E o \in addNewTicket(dto) : o.resp = resp

\* the movie, start and end an update asks the stored showtime ex to have
UpdateMovies(ex, dto) ==
    IF Defined(dto.movie_title) /\ Defined(dto.movie_release_year)
    THEN { m \in movies : /\ m.title = Normalize(Val(dto.movie_title))
                           /\ m.release_year = Val(dto.movie_release_year) }
    ELSE IF ~ Defined(dto.movie_title) /\ ~ Defined(dto.movie_release_year)
    THEN MoviesOf(ex)
    ELSE {}
UpdateStart(ex, dto) ==
    IF Defined(dto.start_time) THEN Val(dto.start_time) ELSE ex.start_time
UpdateEnd(ex, dto) ==
    IF Defined(dto.end_time) THEN Val(dto.end_time) ELSE ex.end_time
UpdateTheater(ex, dto) ==
    IF Defined(dto.theater) THEN Normalize(Val(dto.theater)) ELSE ex.theater

\* every showtime row an outcome writes has the length of its movie
WrittenRowsMatch(o) ==
    \A s \in o.showtimes \ showtimes :
        \E m \in movies :
            /\ m.id = s.movie_id
            /\ Minutes(s.end_time) - Minutes(s.start_time) = m.duration

RefusedBadRequest(o) ==
    o.resp.status = "BadRequest" /\ o.showtimes = showtimes

\* C4: a showtime is stored, by add or by update, only if the minutes from
\* its start to its end equal its movie's duration; a request whose window
\* has another length fails with BadRequest and leaves the store unchanged.
C4_DurationMatches ==
    /\ \A dto \in CreateShowTimeDtos :
        LET known == { m \in movies : /\ m.title = Normalize(dto.movie_title)
                                      /\ m.release_year = dto.movie_release_year }
            mismatch == \E m \in known :
                Minutes(dto.end_time) - Minutes(dto.start_time) # m.duration
        IN  \A o \in addNewShowTime(dto) :
                /\ WrittenRowsMatch(o)
                /\ mismatch => RefusedBadRequest(o)
    /\ \A ex \in showtimes : \A dto \in UpdateShowTimeDtos :
        LET mismatch == \E m \in UpdateMovies(ex, dto) :
                Minutes(UpdateEnd(ex, dto)) - Minutes(UpdateStart(ex, dto))
                    # m.duration
        IN  \A o \in updateShowTimeInfo(ex.id, dto) :
                /\ WrittenRowsMatch(o)
                /\ mismatch => RefusedBadRequest(o)

\* an update that would give a stored showtime a window longer than its
\* movie was refused
C4_Witness ==
    /\ resp = BadRequest("updateShowTimeInfo", "DurationMismatch")
    /\ \E ex \in showtimes : \E dto \in UpdateShowTimeDtos :
            /\ \E m \in UpdateMovies(ex, dto) :
                    Minutes(UpdateEnd(ex, dto)) - Minutes(UpdateStart(ex, dto))
                        > m.duration
            /\ \E o \in updateShowTimeInfo(ex.id, dto) : o.resp = resp

\* request p leaves the step it has reached after the seat-taken check
Inserts(p) == procs[p].pc = "insert" /\ procs'[p].pc # "insert"

\* C5: with requests in flight together, a request that has passed the
\* seat-taken check stores its row and succeeds whatever the table holds by
\* then, so two requests for one showtime and seat that both pass the check
\* before either inserts are both stored.
C5_InsertUnchecked ==
    [][\A p \in Procs :
         Inserts(p) =>
            /\ resp'.status = "Ok"
            /\ BagCardinality(tickets') + BagCardinality(bookings')
                 = BagCardinality(tickets) + BagCardinality(bookings) + 1]_vars

\* both requests have ended with a row stored for one seat of showtime 1
C5_Witness ==
    /\ \A p \in Procs : procs[p].pc = "done"
    /\ resp.status = "Ok"
    /\ \E n \in SeatInputs :
            BagCardinality([r \in { q \in BagToSet(tickets) :
                                        q.showtime_id = 1 /\ q.seat_number = n }
                                |-> tickets[r]]) >= 2

\* the response the documented order of checks gives a ticket request
C6_ExpectedTicket(dto) ==
    LET sts == TicketShowTimes(dto)
        st == CHOOSE x \in sts : TRUE
        who == Normalize(dto.customer_name)
    IN  IF sts = {} THEN NotFound("addNewTicket", "ShowTimeNotFound")
        ELSE IF MoviesOf(st) = {} THEN NotFound("addNewTicket", "MovieNotFound")
        ELSE IF \E m \in MoviesOf(st) : m.title # Normalize(dto.movie_title)
        THEN BadRequest("addNewTicket", "MovieMismatch")
        ELSE IF TicketCount(st.id) >= Capacity
        THEN BadRequest("addNewTicket", "TheaterFull")
        ELSE IF TicketHeldBy(st.id, dto.seat_number, who)
        THEN BadRequest("addNewTicket", "AlreadyBooked")
        ELSE IF TicketHeld(st.id, dto.seat_number)
        THEN BadRequest("addNewTicket", "SeatTaken")
        ELSE Ok("addNewTicket")

\* the response the documented order of checks gives a booking request
C6_ExpectedBooking(dto) ==
    LET sts == BookingShowTimes(dto)
        st == CHOOSE x \in sts : TRUE
    IN  IF sts = {} THEN NotFound("addNewBooking", "ShowTimeNotFound")
        ELSE IF MoviesOf(st) = {} THEN NotFound("addNewBooking", "MovieNotFound")
        ELSE IF BookingCount(st.id) >= Capacity
        THEN BadRequest("addNewBooking", "TheaterFull")
        ELSE IF BookingHeldBy(st.id, dto.seatNumber, dto.userId)
        THEN BadRequest("addNewBooking", "AlreadyBooked")
        ELSE IF BookingHeld(st.id, dto.seatNumber)
        THEN BadRequest("addNewBooking", "SeatTaken")
        ELSE Ok("addNewBooking")

\* C6: a booking request is answered by the first failing check in the
\* order showtime exists (NotFound), movie exists (NotFound), title matches
\* (BadRequest, ticket requests only), theater not full, the party does not
\* hold the seat ("already booked"), the seat is free ("seat already
\* taken"); a request that fails stores nothing.
C6_BookingCheckOrder ==
    /\ variant = "ticket" =>
          \A dto \in CreateTicketDtos : \A o \in addNewTicket(dto) :
            /\ o.resp = C6_ExpectedTicket(dto)
            /\ o.resp.status # "Ok" => o.tickets = tickets
    /\ variant = "booking" =>
          \A dto \in BookingDtos : \A o \in addNewBooking(dto) :
            /\ o.resp = C6_ExpectedBooking(dto)
            /\ o.resp.status # "Ok" => o.bookings = bookings

\* a user who holds a seat asked for it again: the duplicate-party check
\* and the seat-taken check both fail, and the first of them answered
C6_Witness ==
    /\ resp = BadRequest("addNewBooking", "AlreadyBooked")
    /\ \E dto \in BookingDtos :
            /\ BookingHeldBy(dto.showtimeId, dto.seatNumber, dto.userId)
            /\ BookingHeld(dto.showtimeId, dto.seatNumber)
            /\ dto.seatNumber > Capacity - FreeSeats
            /\ \E o \in addNewBooking(dto) : o.resp = resp

\* the response the documented order of checks gives addNewShowTime
C7_Expected(dto) ==
    LET known == { m \in movies : m.title = Normalize(dto.movie_title)
                                  /\ m.release_year = dto.movie_release_year }
        movie == CHOOSE m \in known : TRUE
    IN  IF dto.price <= 0 THEN BadRequest("addNewShowTime", "PriceNotPositive")
        ELSE IF known = {} THEN NotFound("addNewShowTime", "MovieNotFound")
        ELSE IF dto.start_time = dto.end_time
        THEN BadRequest("addNewShowTime", "SameStartEnd")
        ELSE IF Minutes(dto.start_time) > Minutes(dto.end_time)
        THEN BadRequest("addNewShowTime", "EndBeforeStart")
        ELSE IF Minutes(dto.end_time) - Minutes(dto.start_time) # movie.duration
        THEN BadRequest("addNewShowTime", "DurationMismatch")
        ELSE IF \E s \in showtimes :
                    /\ s.theater = Normalize(dto.theater)
                    /\ Overlaps(dto.start_time, dto.end_time, s.start_time, s.end_time)
        THEN BadRequest("addNewShowTime", "Overlap")
        ELSE IF \E s \in showtimes :
                    /\ s.movie_id = movie.id /\ s.theater = Normalize(dto.theater)
                    /\ s.start_time = dto.start_time /\ s.end_time = dto.end_time
                    /\ s.price = dto.price
        THEN BadRequest("addNewShowTime", "SameDetails")
        ELSE Ok("addNewShowTime")

\* C7: addNewShowTime answers with the error of the first failing check in
\* the order price above 0 (BadRequest), movie exists (NotFound), start
\* differs from and precedes end (BadRequest), window length equals the
\* duration (BadRequest), no overlap in the theater (BadRequest), no exact
\* duplicate (BadRequest); a request that fails stores nothing.
C7_AddCheckOrder ==
    \A dto \in CreateShowTimeDtos : \A o \in addNewShowTime(dto) :
        /\ o.resp = C7_Expected(dto)
        /\ o.resp.status # "Ok" => o.showtimes = showtimes

\* a request with price 0 for a movie that is not in the catalog was answered
\* with the price error
C7_Witness ==
    /\ resp = BadRequest("addNewShowTime", "PriceNotPositive")
    /\ \E dto \in CreateShowTimeDtos :
            /\ dto.price <= 0
            /\ fetchMovieByTitleAndReleaseYear(Normalize(dto.movie_title),
                                               dto.movie_release_year) = {}
            /\ \E o \in addNewShowTime(dto) : o.resp = resp

\* an update of ex that passes every check before the overlap check
UpdatePassesEarlierChecks(ex, dto) ==
    /\ UpdateMovies(ex, dto) # {}
    /\ Defined(dto.price) => Val(dto.price) > 0
    /\ Minutes(UpdateStart(ex, dto)) < Minutes(UpdateEnd(ex, dto))
    /\ \A m \in UpdateMovies(ex, dto) :
            Minutes(UpdateEnd(ex, dto)) - Minutes(UpdateStart(ex, dto)) = m.duration

\* a showtime other than ex stored in the theater overlaps the window
OtherOverlaps(ex, theater, start, end) ==
    \E s \in showtimes :
        /\ s.id # ex.id
        /\ s.theater = theater
        /\ Overlaps(start, end, s.start_time, s.end_time)

\* C8: an update that changes the theater, start or end of a showtime
\* checks the new window against every other showtime of the theater and
\* leaves the updated showtime itself out, so it succeeds when the new
\* window overlaps only the showtime's own stored window.
C8_UpdateExcludesSelf ==
    \A ex \in showtimes : \A dto \in UpdateShowTimeDtos :
        (/\ UpdatePassesEarlierChecks(ex, dto)
         /\ \/ UpdateStart(ex, dto) # ex.start_time
            \/ UpdateEnd(ex, dto) # ex.end_time
            \/ UpdateTheater(ex, dto) # ex.theater
         /\ ~ OtherOverlaps(ex, UpdateTheater(ex, dto), UpdateStart(ex, dto),
                            UpdateEnd(ex, dto)))
        => \A o \in updateShowTimeInfo(ex.id, dto) : o.resp.status = "Ok"

\* the update that sets only the theater
TheaterOnly(th) == [EmptyUpdate EXCEPT !.theater = <<th>>]

\* moving ex to the theater th, as it is, meets another showtime there
MoveMeetsAnother(ex, th) ==
    /\ Normalize(th) # ex.theater
    /\ UpdatePassesEarlierChecks(ex, TheaterOnly(th))
    /\ OtherOverlaps(ex, Normalize(th), ex.start_time, ex.end_time)

\* C9 as stated: an update that changes only the theater name skips the
\* overlap check and succeeds even when another showtime in the new theater
\* overlaps the showtime's window.
C9_TheaterOnlySkipsCheck ==
    \A ex \in showtimes : \A th \in RawTheaters :
        MoveMeetsAnother(ex, th)
        => \A o \in updateShowTimeInfo(ex.id, TheaterOnly(th)) :
                o.resp.status = "Ok"

\* C9: an update that changes only the theater name runs the overlap check
\* against the new theater: when another showtime stored there overlaps the
\* showtime's window it is refused with the overlap BadRequest and stores
\* nothing, and when none does it succeeds (the stored movie resolving and
\* its duration being the length of the stored window).
C9_TheaterOnlyChecked ==
    \A ex \in showtimes : \A th \in RawTheaters :
        (Normalize(th) # ex.theater /\ UpdatePassesEarlierChecks(ex, TheaterOnly(th)))
        => \A o \in updateShowTimeInfo(ex.id, TheaterOnly(th)) :
                IF OtherOverlaps(ex, Normalize(th), ex.start_time, ex.end_time)
                THEN /\ o.resp = BadRequest("updateShowTimeInfo", "Overlap")
                     /\ o.showtimes = showtimes
                ELSE /\ o.resp = Ok("updateShowTimeInfo")
                     /\ o.showtimes =
                            { IF s.id = ex.id
                              THEN [s EXCEPT !.theater = Normalize(th)]
                              ELSE s : s \in showtimes }

\* a theater-only update towards a theater where another showtime overlaps
\* was refused
C9_Witness ==
    /\ resp = BadRequest("updateShowTimeInfo", "Overlap")
    /\ \E ex \in showtimes : \E th \in RawTheaters :
            /\ MoveMeetsAnother(ex, th)
            /\ \E o \in updateShowTimeInfo(ex.id, TheaterOnly(th)) : o.resp = resp

\* a request for a seat that is held, passing the checks before the
\* duplicate-party check
TicketForHeldSeat(dto) ==
    /\ TicketResolves(dto)
    /\ \A s \in TicketShowTimes(dto) :
            TicketHeld(s.id, dto.seat_number) /\ TicketCount(s.id) < Capacity
BookingForHeldSeat(dto) ==
    /\ BookingResolves(dto)
    /\ BookingHeld(dto.showtimeId, dto.seatNumber)
    /\ BookingCount(dto.showtimeId) < Capacity

\* C10 as stated: once a booking for a showtime and seat is stored, every
\* later request for that showtime and seat, by any party including the
\* holder, is refused with "seat already taken" and stores nothing.
C10_AnyPartySeatTaken ==
    /\ variant = "ticket" =>
          \A dto \in CreateTicketDtos :
            TicketForHeldSeat(dto)
            => \A o \in addNewTicket(dto) :
                    /\ o.resp = BadRequest("addNewTicket", "SeatTaken")
                    /\ o.tickets = tickets
    /\ variant = "booking" =>
          \A dto \in BookingDtos :
            BookingForHeldSeat(dto)
            => \A o \in addNewBooking(dto) :
                    /\ o.resp = BadRequest("addNewBooking", "SeatTaken")
                    /\ o.bookings = bookings

\* C10: once a booking for a showtime and seat is stored, every later
\* request for that showtime and seat is refused and stores nothing; of the
\* requests that resolve their showtime and movie while the theater is not
\* full, one by another party is refused with "seat already taken" and
\* one by the holder with "already booked this seat".
C10_HeldSeatRefused ==
    /\ variant = "ticket" =>
          \A dto \in CreateTicketDtos : \A s \in TicketShowTimes(dto) :
            TicketHeld(s.id, dto.seat_number)
            => \A o \in addNewTicket(dto) :
                /\ o.resp.status # "Ok"
                /\ o.tickets = tickets
                /\ TicketForHeldSeat(dto) =>
                     o.resp.msg =
                        IF TicketHeldBy(s.id, dto.seat_number,
                                        Normalize(dto.customer_name))
                        THEN "AlreadyBooked" ELSE "SeatTaken"
    /\ variant = "booking" =>
          \A dto \in BookingDtos :
            BookingHeld(dto.showtimeId, dto.seatNumber)
            => \A o \in addNewBooking(dto) :
                /\ o.resp.status # "Ok"
                /\ o.bookings = bookings
                /\ BookingForHeldSeat(dto) =>
                     o.resp.msg =
                        IF BookingHeldBy(dto.showtimeId, dto.seatNumber, dto.userId)
                        THEN "AlreadyBooked" ELSE "SeatTaken"

\* the customer who holds a seat of showtime 2 asked for it again and was
\* told they had already booked it
C10_Witness ==
    /\ resp = BadRequest("addNewTicket", "AlreadyBooked")
    /\ \E dto \in CreateTicketDtos :
            /\ TicketForHeldSeat(dto)
            /\ \A s \in TicketShowTimes(dto) :
                    /\ s.id = 2
                    /\ TicketHeldBy(s.id, dto.seat_number, Normalize(dto.customer_name))
            /\ \E o \in addNewTicket(dto) : o.resp = resp

-----------------------------------------------------------------------------
(* The catalog and the schedule together *)

\* C11: in every state reached by movie add/update/delete and showtime
\* add/update/delete, every stored showtime ends strictly after it starts
\* and, when its movie exists, lasts exactly that movie's current duration.
C11_WindowMatchesMovie ==
    \A s \in showtimes :
        /\ StringGreater(s.end_time, s.start_time)
        /\ \A m \in fetchMovieById(s.movie_id) :
                calculateDuration(s.start_time, s.end_time) = m.duration

\* C12 as stated: for every id that identifies no stored record (0
\* included), deleteShowTime and deleteMovie answer NotFound and leave the
\* tables as they were; so does deleteMovie by a title no movie has.
C12_UnknownIdNotFound ==
    /\ variant = "ticket" =>
        /\ \A id \in 0..MaxShowTimeId :
              fetchShowTimeById(id) = {}
              => \A o \in deleteShowTime(id) :
                    o.resp.status = "NotFound" /\ o.showtimes = showtimes
        /\ \A id \in 0..MaxMovieId :
              fetchMovieById(id) = {}
              => \A o \in deleteMovie(id) :
                    o.resp.status = "NotFound" /\ o.movies = movies
    /\ variant = "booking" =>
          \A t \in RawTitles :
              findMovieByTitle(Normalize(t)) = {}
              => \A o \in Title_deleteMovie(t) :
                    o.resp.status = "NotFound" /\ o.movies = movies

\* C12: for every id above 0 that identifies no stored record,
\* deleteShowTime and deleteMovie answer NotFound, and for an id of 0
\* BadRequest; deleteMovie by a title no movie has answers NotFound.  None
\* of them succeeds or changes a table.  A delete that succeeds leaves no
\* record of that id (or title), so repeating it answers NotFound.
C12_UnknownDeleteRefused ==
    /\ variant = "ticket" =>
        /\ \A id \in 0..MaxShowTimeId : \A o \in deleteShowTime(id) :
              IF fetchShowTimeById(id) = {}
              THEN /\ o.resp.status = IF id > 0 THEN "NotFound" ELSE "BadRequest"
                   /\ o.showtimes = showtimes
              ELSE /\ o.resp.status = "Ok"
                   /\ \A s \in o.showtimes : s.id # id
        /\ \A id \in 0..MaxMovieId : \A o \in deleteMovie(id) :
              IF fetchMovieById(id) = {}
              THEN /\ o.resp.status = IF id > 0 THEN "NotFound" ELSE "BadRequest"
                   /\ o.movies = movies
              ELSE /\ o.resp.status = "Ok"
                   /\ \A m \in o.movies : m.id # id
    /\ variant = "booking" =>
          \A t \in RawTitles : \A o \in Title_deleteMovie(t) :
              IF findMovieByTitle(Normalize(t)) = {}
              THEN /\ o.resp.status = "NotFound"
                   /\ o.movies = movies
              ELSE /\ o.resp.status = "Ok"
                   /\ \A m \in o.movies : m.title # Normalize(t)

\* the delete of a movie id that was stored and deleted before was asked
\* again and answered NotFound
C12_Witness ==
    /\ resp = NotFound("deleteMovie", "MovieNotFound")
    /\ \E id \in MovieIds :
            /\ id < nextMovieId
            /\ fetchMovieById(id) = {}
            /\ \E o \in deleteMovie(id) : o.resp = resp

\* C13: in every state reached by addNewMovie, updateMovieInfo and
\* deleteMovie no two stored movies share their natural key (title and
\* release year by id, title alone by title), and an add or a title-changing
\* update that would collide with a different stored movie fails and leaves
\* the catalog as it was.
C13_NaturalKeyUnique ==
    /\ variant = "ticket" =>
        /\ \A m1, m2 \in movies :
              m1.title = m2.title /\ m1.release_year = m2.release_year => m1 = m2
        /\ \A dto \in OfficeMovieDtos :
              fetchMovieByTitleAndReleaseYear(Normalize(dto.title),
                                              dto.release_year) # {}
              => \A o \in addNewMovie(dto) :
                    o.resp.status # "Ok" /\ o.movies = movies
        /\ \A id \in MovieIds : \A dto \in OfficeUpdateMovieDtos :
            \A movieExists \in fetchMovieById(id) :
              (/\ Defined(dto.title)
               /\ \E m \in movies :
                    /\ m.id # id
                    /\ m.title = MergeMovie(movieExists, dto).title
                    /\ m.release_year = MergeMovie(movieExists, dto).release_year)
              => \A o \in updateMovieInfo(id, dto) :
                    o.resp.status # "Ok" /\ o.movies = movies
    /\ variant = "booking" =>
        /\ \A m1, m2 \in movies : m1.title = m2.title => m1 = m2
        /\ \A dto \in OfficeMovieDtos :
              findMovieByTitle(Normalize(dto.title)) # {}
              => \A o \in Title_addNewMovie(dto) :
                    o.resp.status # "Ok" /\ o.movies = movies
        /\ \A t \in OfficeTitles : \A dto \in OfficeMovieDtos :
              (/\ findMovieByTitle(Normalize(t)) # {}
               /\ Normalize(dto.title) # Normalize(t)
               /\ findMovieByTitle(Normalize(dto.title)) # {})
              => \A o \in Title_updateMovieInfo(t, dto) :
                    o.resp.status # "Ok" /\ o.movies = movies

\* titles as a caller may spell them
TitleSpellings ==
    RawTitles \cup { <<"u", "p">>, <<" ", " ", "U", "p", " ">>, <<"H", "i">>,
                     <<"H", "i", " ">> }

\* two titles are equal up to surrounding whitespace and letter case
SameTitle(a, b) == toLowerCase(trim(a)) = toLowerCase(trim(b))

\* the rows an outcome of addNewShowTime has added
AddedShowTimes(o) == { s \in o.showtimes : s.id = nextShowTimeId }

\* C14: right after addNewMovie has stored a movie, every lookup by a title
\* equal to its title up to surrounding whitespace and letter case resolves
\* to that stored movie: the duplicate check of another add, the movie of a
\* new showtime, and the update and delete by title.
C14_SameTitleResolves ==
    resp = Ok("addNewMovie") =>
      \A m \in fetchMovieById(nextMovieId - 1) :
        \A t \in TitleSpellings :
          SameTitle(t, m.title) =>
            /\ variant = "ticket" =>
                /\ fetchMovieByTitleAndReleaseYear(Normalize(t), m.release_year) = {m}
                /\ \A d \in Durations :
                     \A o \in addNewMovie([title |-> t, release_year |-> m.release_year,
                                           duration |-> d]) :
                        o.resp = BadRequest("addNewMovie", "MovieExists")
                /\ \A dto \in OfficeShowTimeDtos :
                     \A o \in addNewShowTime([dto EXCEPT !.movie_title = t,
                                    !.movie_release_year = m.release_year]) :
                        /\ o.resp # NotFound("addNewShowTime", "MovieNotFound")
                        /\ \A s \in AddedShowTimes(o) : s.movie_id = m.id
            /\ variant = "booking" =>
                /\ findMovieByTitle(Normalize(t)) = {m}
                /\ \A dto \in OfficeMovieDtos :
                     /\ \A o \in Title_addNewMovie([dto EXCEPT !.title = t]) :
                            o.resp = BadRequest("addNewMovie", "MovieExists")
                     /\ \A o \in Title_updateMovieInfo(t, dto) :
                            /\ o.resp.status # "NotFound"
                            /\ o.resp.status = "Ok" =>
                                 o.movies \ movies
                                    = { [m EXCEPT !.title = Normalize(dto.title),
                                                  !.release_year = dto.release_year,
                                                  !.duration = dto.duration] } \ movies
                /\ \A o \in Title_deleteMovie(t) :
                        o.resp.status = "Ok" /\ o.movies = movies \ {m}

\* " Up" was just added and spelled differently by the next caller, whose
\* add is refused as a duplicate
C14_Witness ==
    /\ resp = Ok("addNewMovie")
    /\ \E m \in fetchMovieById(nextMovieId - 1) :
         \E t \in TitleSpellings \ RawTitles :
            /\ SameTitle(t, m.title)
            /\ t # m.title
            /\ \E o \in (IF variant = "ticket"
                         THEN addNewMovie([title |-> t, release_year |-> m.release_year,
                                           duration |-> m.duration])
                         ELSE Title_addNewMovie([title |-> t,
                                           release_year |-> m.release_year,
                                           duration |-> m.duration])) :
                    o.resp = BadRequest("addNewMovie", "MovieExists")

-----------------------------------------------------------------------------
(* Deleting what others refer to *)

\* the showtimes that refer to movie id
ShowTimesOf(id) == { s \in showtimes : s.movie_id = id }

\* deleteMovie of a stored movie that showtimes refer to succeeds and
\* removes that movie alone
DeleteReferencedSucceeds ==
    /\ variant = "ticket" =>
          \A id \in MovieIds :
            fetchMovieById(id) # {} /\ ShowTimesOf(id) # {}
            => \A o \in deleteMovie(id) :
                    /\ o.resp = Ok("deleteMovie")
                    /\ o.movies = movies \ fetchMovieById(id)
    /\ variant = "booking" =>
          \A t \in RawTitles : \A m \in findMovieByTitle(Normalize(t)) :
            ShowTimesOf(m.id) # {}
            => \A o \in Title_deleteMovie(t) :
                    /\ o.resp = Ok("deleteMovie")
                    /\ o.movies = movies \ {m}

\* a deleteMovie that has succeeded has changed no showtime and no booking
DeleteMovieKeepsOthers ==
    resp' = Ok("deleteMovie") /\ movies' # movies
    => /\ showtimes' = showtimes
       /\ tickets' = tickets
       /\ bookings' = bookings
       /\ movies' \subseteq movies
       /\ Cardinality(movies \ movies') = 1

\* C15: deleteMovie of a movie that showtimes refer to succeeds, removes
\* that movie alone and leaves every showtime and booking as it was.
C15_DeleteMovieNoCascade ==
    []DeleteReferencedSucceeds /\ [][DeleteMovieKeepsOthers]_vars

\* a stored showtime refers to a movie that was just deleted
C15_Witness ==
    /\ resp = Ok("deleteMovie")
    /\ \E s \in showtimes : fetchMovieById(s.movie_id) = {}
    /\ BagCardinality(tickets) + BagCardinality(bookings) > 0

\* a ticket request whose showtime is stored while its movie is not
TicketForOrphan(dto) ==
    /\ TicketShowTimes(dto) # {}
    /\ \A s \in TicketShowTimes(dto) : MoviesOf(s) = {}

\* a booking request whose showtime is stored while its movie is not
BookingForOrphan(dto) ==
    /\ BookingShowTimes(dto) # {}
    /\ \A s \in BookingShowTimes(dto) : MoviesOf(s) = {}

\* C16: a booking request for a stored showtime whose movie is not stored
\* is answered NotFound and stores no booking, whatever the seat and party.
C16_OrphanShowTimeNotFound ==
    /\ variant = "ticket" =>
          \A dto \in CreateTicketDtos :
            TicketForOrphan(dto)
            => \A o \in addNewTicket(dto) :
                    /\ o.resp = NotFound("addNewTicket", "MovieNotFound")
                    /\ o.tickets = tickets
    /\ variant = "booking" =>
          \A dto \in BookingDtos :
            BookingForOrphan(dto)
            => \A o \in addNewBooking(dto) :
                    /\ o.resp = NotFound("addNewBooking", "MovieNotFound")
                    /\ o.bookings = bookings

\* a free seat of showtime 2 was asked for after its movie had been deleted
C16_Witness ==
    /\ variant = "booking"
    /\ resp = NotFound("addNewBooking", "MovieNotFound")
    /\ \E dto \in BookingDtos :
            /\ dto.showtimeId = 2
            /\ BookingForOrphan(dto)
            /\ ~BookingHeld(dto.showtimeId, dto.seatNumber)
            /\ \E o \in addNewBooking(dto) : o.resp = resp

\* C17: stored bookings are never updated or deleted: whatever the request
\* (the delete or update of the showtime or movie a booking refers to
\* included), every booking stored before it is stored, unchanged, after it.
C17_BookingsKept ==
    [][tickets \sqsubseteq tickets' /\ bookings \sqsubseteq bookings']_vars

\* a ticket is stored for a showtime and a movie that were both deleted
\* after it was sold
C17_Witness ==
    /\ resp.status = "Ok"
    /\ \E r \in BagToSet(tickets) :
            /\ fetchShowTimeById(r.showtime_id) = {}
            /\ fetchMovieById(r.movie_id) = {}

-----------------------------------------------------------------------------
(* Requests whose write fails *)

\* Of a request with the outcomes outs when the database works and all
\* when its write may fail: if it reaches the write, it may end with the
\* error; every further way it may end is with the error of its own write,
\* which is an InternalServerErrorException; if it does not reach the write,
\* it ends as it would have.
FailureSeen(outs, all) ==
    /\ Written(outs) # {} => all \ outs # {}
    /\ Written(outs) = {} => all = outs
    /\ \A o \in all \ outs :
            /\ o.resp.status = "InternalServerError"
            /\ \E x \in Written(outs) : x.resp.op = o.resp.op

MovieFailure(outs) ==
    /\ FailureSeen(outs, MovieWrites(outs))
    /\ \A o \in MovieWrites(outs) \ outs : o.movies = movies

ShowTimeFailure(outs) ==
    /\ FailureSeen(outs, ShowTimeWrites(outs))
    /\ \A o \in ShowTimeWrites(outs) \ outs : o.showtimes = showtimes

TicketFailure(outs) ==
    /\ FailureSeen(outs, TicketWrites(outs))
    /\ \A o \in TicketWrites(outs) \ outs : o.tickets = tickets

BookingFailure(outs) ==
    /\ FailureSeen(outs, BookingWrites(outs))
    /\ \A o \in BookingWrites(outs) \ outs : o.bookings = bookings

\* every request that reaches its write may end with the error of the
\* write, and then its table is as before
FailureReachesCaller ==
    /\ variant = "ticket" =>
        /\ \A dto \in OutageMovieDtos : MovieFailure(addNewMovie(dto))
        /\ \A id \in MovieIds : \A dto \in OutageUpdateMovieDtos :
                MovieFailure(updateMovieInfo(id, dto))
        /\ \A id \in MovieIds : MovieFailure(deleteMovie(id))
        /\ \A dto \in OutageShowTimeDtos : ShowTimeFailure(addNewShowTime(dto))
        /\ \A id \in ShowTimeIds : \A dto \in OutageUpdateShowTimeDtos :
                ShowTimeFailure(updateShowTimeInfo(id, dto))
        /\ \A id \in ShowTimeIds : ShowTimeFailure(deleteShowTime(id))
        /\ \A dto \in OutageTicketDtos : TicketFailure(addNewTicket(dto))
    /\ variant = "booking" =>
        /\ \A dto \in OfficeMovieDtos : MovieFailure(Title_addNewMovie(dto))
        /\ \A t \in OfficeTitles : \A dto \in OfficeMovieDtos :
                MovieFailure(Title_updateMovieInfo(t, dto))
        /\ \A t \in OfficeTitles : MovieFailure(Title_deleteMovie(t))
        /\ \A dto \in OfficeBookingDtos : BookingFailure(addNewBooking(dto))

\* a request that has ended with the error of its write has changed no table
FailedRequestKeepsStore ==
    resp'.status = "InternalServerError"
    => /\ movies' = movies
       /\ showtimes' = showtimes
       /\ tickets' = tickets
       /\ bookings' = bookings

-----------------------------------------------------------------------------
(* What an update of a showtime writes *)

\* the ids the showtime ex may carry after the update dto: of the movie
\* the dto names, or else the stored one
UpdateMovieIds(ex, dto) ==
    IF Defined(dto.movie_title)
    THEN { m.id : m \in UpdateMovies(ex, dto) }
    ELSE { ex.movie_id }

\* C19: after a successful updateShowTimeInfo the showtime has its id,
\* every field the update supplies has the supplied value (the theater
\* trimmed and lower-cased, the movie id that of the movie named), every
\* field it does not supply has its stored value, and no other showtime has
\* changed.
C19_UpdateMerges ==
    \A ex \in showtimes : \A dto \in UpdateShowTimeDtos :
        \A o \in updateShowTimeInfo(ex.id, dto) :
            o.resp.status = "Ok"
            => /\ \E s \in o.showtimes :
                    /\ s.id = ex.id
                    /\ s.movie_id \in UpdateMovieIds(ex, dto)
                    /\ s.theater = UpdateTheater(ex, dto)
                    /\ s.start_time = UpdateStart(ex, dto)
                    /\ s.end_time = UpdateEnd(ex, dto)
                    /\ s.price = IF Defined(dto.price) THEN Val(dto.price)
                                 ELSE ex.price
                    /\ o.showtimes \ {s} = showtimes \ {ex}
               /\ Cardinality(o.showtimes) = Cardinality(showtimes)
               /\ o.nextShowTimeId = nextShowTimeId

\* with two showtimes stored, one was just updated, and an update that
\* supplies a theater alone would now move one of them
C19_Witness ==
    /\ resp = Ok("updateShowTimeInfo")
    /\ Cardinality(showtimes) = 2
    /\ \E ex \in showtimes : \E th \in RawTheaters :
         \E o \in updateShowTimeInfo(ex.id, TheaterOnly(th)) :
            /\ o.resp.status = "Ok"
            /\ o.showtimes # showtimes

\* the updates of the showtime ex that name a movie and leave theater, start
\* and end as stored (not sent, or sent with the stored value)
MovieOnlyUpdates(ex) ==
    { d \in [movie_title : { <<t>> : t \in RawTitles },
             movie_release_year : { <<y>> : y \in Years },
             theater : {<<>>} \cup { <<th>> : th \in { r \in RawTheaters :
                                                Normalize(r) = ex.theater } },
             start_time : {<<>>, <<ex.start_time>>},
             end_time : {<<>>, <<ex.end_time>>},
             price : {<<>>}] : TRUE }

\* C20: an updateShowTimeInfo that changes the movie alone (title and year
\* given; theater, start and end as stored) is not checked for overlap and
\* is checked for duration: it fails with NotFound when no movie has the
\* title and year, with BadRequest when the movie's duration differs from
\* the stored window, and otherwise succeeds and stores the movie's id,
\* leaving every other field and showtime as it was.
C20_MovieOnlyRechecksDuration ==
    variant = "ticket" =>
    \A ex \in showtimes : \A dto \in MovieOnlyUpdates(ex) :
        \A o \in updateShowTimeInfo(ex.id, dto) :
            IF UpdateMovies(ex, dto) = {}
            THEN /\ o.resp = NotFound("updateShowTimeInfo", "MovieNotFound")
                 /\ o.showtimes = showtimes
            ELSE \E m \in UpdateMovies(ex, dto) :
                    IF m.duration = Minutes(ex.end_time) - Minutes(ex.start_time)
                    THEN /\ o.resp = Ok("updateShowTimeInfo")
                         /\ o.showtimes = (showtimes \ {ex})
                                \cup {[ex EXCEPT !.movie_id = m.id]}
                    ELSE /\ o.resp = BadRequest("updateShowTimeInfo",
                                                "DurationMismatch")
                         /\ o.showtimes = showtimes

\* a showtime was just updated, and an update that names another stored
\* movie of the same length alone would now give it that movie's id
C20_Witness ==
    /\ variant = "ticket"
    /\ resp = Ok("updateShowTimeInfo")
    /\ \E ex \in showtimes : \E dto \in MovieOnlyUpdates(ex) :
         \E o \in updateShowTimeInfo(ex.id, dto) :
            /\ o.resp.status = "Ok"
            /\ \E s \in o.showtimes : s.id = ex.id /\ s.movie_id # ex.movie_id

-----------------------------------------------------------------------------
(* A rush on the last seats: MaxRush booking requests in flight together   *)
(* for the warmed-up showtime, every await a step of its own, all by one   *)
(* party that has no booking yet.                                          *)

\* booking requests in flight at once during the rush
MaxRush == 4

RushProcs == 1..MaxRush

RushTicketDtos == { d \in RaceTicketDtos : d.customer_name = <<"b", "o">> }

RushBookingDtos == { d \in RaceBookingDtos : d.userId = "u2" }

InitRush ==
    /\ variant \in {"ticket", "booking"}
    /\ movies = Catalog
    /\ nextMovieId = 3
    /\ showtimes = Schedule
    /\ nextShowTimeId = 3
    /\ tickets = IF variant = "ticket" THEN WarmTickets ELSE EmptyBag
    /\ bookings = IF variant = "booking" THEN WarmBookings ELSE EmptyBag
    /\ resp = NoResp
    /\ procs = [p \in RushProcs |-> Idle]

NextRush ==
    \E p \in RushProcs :
        \/ variant = "ticket" /\ \E dto \in RushTicketDtos : Ticket_FetchShowTime(p, dto)
        \/ Ticket_FetchMovie(p)
        \/ Ticket_CheckFull(p)
        \/ Ticket_CheckDuplicate(p)
        \/ Ticket_CheckSeat(p)
        \/ Ticket_Insert(p)
        \/ variant = "booking" /\ \E dto \in RushBookingDtos : Booking_FetchShowTime(p, dto)
        \/ Booking_FetchMovie(p)
        \/ Booking_CheckFull(p)
        \/ Booking_CheckDuplicate(p)
        \/ Booking_CheckSeat(p)
        \/ Booking_Insert(p)

SpecRush == InitRush /\ [][NextRush]_vars

\* request p makes its capacity check
ChecksFull(p) == procs[p].pc = "isTheaterFull" /\ procs'[p].pc # "isTheaterFull"

\* the bookings the capacity check of request p counts
CountSeen(p) ==
    IF variant = "ticket" THEN TicketCount(Val(procs[p].showtime).id)
    ELSE BookingCount(Val(procs[p].dto).showtimeId)

\* C21: with booking requests in flight together, in either engine, a
\* request whose capacity check finds Capacity or more bookings of the
\* showtime ends there with "theater is full" and stores nothing.
C21_FullObservedRefused ==
    [][\A p \in RushProcs :
         ChecksFull(p) /\ CountSeen(p) >= Capacity =>
            /\ procs'[p].pc = "done"
            /\ resp'.status = "BadRequest" /\ resp'.msg = "TheaterFull"
            /\ tickets' = tickets /\ bookings' = bookings]_vars

\* prices the service refuses; the request schema admits 0
RefusedPrices == { -10, 0 }

\* C22: every stored showtime has a price above 0.  An addNewShowTime with
\* a price of 0 or below is answered with the price BadRequest; an
\* updateShowTimeInfo that carries such a price never succeeds, and is
\* answered with the price BadRequest once its showtime and the movie whose
\* duration it uses are found (with their error otherwise).  Neither stores
\* anything.
C22_PricePositive ==
    /\ \A s \in showtimes : s.price > 0
    /\ \A dto \in CreateShowTimeDtos : \A p \in RefusedPrices :
        \A o \in addNewShowTime([dto EXCEPT !.price = p]) :
            /\ o.resp = BadRequest("addNewShowTime", "PriceNotPositive")
            /\ o.showtimes = showtimes
    /\ \A id \in 0..MaxShowTimeId : \A dto \in UpdateDtosFor(id) :
        \A p \in RefusedPrices :
            \A o \in updateShowTimeInfo(id, [dto EXCEPT !.price = <<p>>]) :
                /\ o.resp.status # "Ok"
                /\ o.showtimes = showtimes
                /\ (\E ex \in fetchShowTimeById(id) : UpdateMovies(ex, dto) # {})
                      => o.resp = BadRequest("updateShowTimeInfo",
                                             "PriceNotPositive")

\* an update of a stored showtime to price 0 was refused, and the showtime
\* keeps its price
C22_Witness ==
    /\ resp = BadRequest("updateShowTimeInfo", "PriceNotPositive")
    /\ \E ex \in showtimes :
         /\ ex.price > 0
         /\ \E o \in updateShowTimeInfo(ex.id, [EmptyUpdate EXCEPT !.price = <<0>>]) :
                o.resp = resp /\ ex \in o.showtimes

\* the updates that name no movie: title undefined or "", year undefined,
\* every other field present or absent
NoMovieUpdates ==
    [movie_title : {<<>>, << <<>> >>}, movie_release_year : {<<>>},
     theater : Option(RawTheaters), start_time : Option(Times),
     end_time : Option(Times), price : Option(Prices)]

\* C23: an updateShowTimeInfo of a stored showtime whose movie id
\* identifies no movie, by an update that names no movie, is answered with
\* NotFound and changes nothing, whatever other fields the update carries.
C23_OrphanUpdateNotFound ==
    variant = "ticket" =>
        \A ex \in showtimes :
            MoviesOf(ex) = {} =>
                \A dto \in NoMovieUpdates :
                    \A o \in updateShowTimeInfo(ex.id, dto) :
                        /\ o.resp = NotFound("updateShowTimeInfo", "DurationUnknown")
                        /\ o.showtimes = showtimes
                        /\ o.nextShowTimeId = nextShowTimeId

\* the movie of a stored showtime was deleted and an update of the showtime
\* that names no movie has been answered with NotFound
C23_Witness ==
    /\ resp = NotFound("updateShowTimeInfo", "DurationUnknown")
    /\ \E ex \in showtimes :
         /\ MoviesOf(ex) = {}
         /\ \E o \in updateShowTimeInfo(ex.id, EmptyUpdate) : o.resp = resp

\* addNewTicket without its duplicate-party check (lines 78-84 left out)
addNewTicket_SeatCheckOnly(ticketData) ==
    LET movieName == Normalize(ticketData.movie_title)
        theaterName == Normalize(ticketData.movie_theater)
        customerName == Normalize(ticketData.customer_name)
        seat_number == ticketData.seat_number
        found == findShowTimeByTheaterAndStartTime(theaterName,
                                                  ticketData.movie_start_time)
        Refused(m) == [resp |-> BadRequest("addNewTicket", m), tickets |-> tickets]
        Missing(m) == [resp |-> NotFound("addNewTicket", m), tickets |-> tickets]
        WithMovie(showTime, movie) ==
            IF Normalize(movie.title) # movieName
            THEN Refused("MovieMismatch")
            ELSE IF Ticket_isTheaterFull(showTime.id)
            THEN Refused("TheaterFull")
            ELSE IF Ticket_isSeatTaken(showTime.id, seat_number)
            THEN Refused("SeatTaken")
            ELSE [resp |-> Ok("addNewTicket"),
                  tickets |-> tickets (+) SetToBag({
                        [movie_id |-> movie.id, showtime_id |-> showTime.id,
                         seat_number |-> seat_number,
                         customer_name |-> customerName]})]
    IN  IF found = {}
        THEN {Missing("ShowTimeNotFound")}
        ELSE UNION {
            IF fetchMovieById(showTime.movie_id) = {}
            THEN {Missing("MovieNotFound")}
            ELSE { WithMovie(showTime, movie) :
                       movie \in fetchMovieById(showTime.movie_id) }
            : showTime \in found }

\* addNewBooking without its duplicate-party check (lines 57-62 left out)
addNewBooking_SeatCheckOnly(data) ==
    LET Refused(m) == [resp |-> BadRequest("addNewBooking", m), bookings |-> bookings]
        Missing(m) == [resp |-> NotFound("addNewBooking", m), bookings |-> bookings]
    IN  IF fetchShowTimeById(data.showtimeId) = {}
        THEN {Missing("ShowTimeNotFound")}
        ELSE {
            IF fetchMovieById(showtime.movie_id) = {}
            THEN Missing("MovieNotFound")
            ELSE IF Booking_isTheaterFull(data.showtimeId)
            THEN Refused("TheaterFull")
            ELSE IF Booking_isSeatTaken(data.showtimeId, data.seatNumber)
            THEN Refused("SeatTaken")
            ELSE [resp |-> Ok("addNewBooking"),
                  bookings |-> bookings (+) SetToBag({
                        [showtimeId |-> data.showtimeId,
                         seatNumber |-> data.seatNumber, userId |-> data.userId]})]
            : showtime \in fetchShowTimeById(data.showtimeId) }

\* a response with the message of the duplicate-party check replaced by the
\* message of the seat-taken check
AsSeatTaken(r) == IF r.msg = "AlreadyBooked" THEN [r EXCEPT !.msg = "SeatTaken"] ELSE r

\* C24: with requests run one at a time, the engine without the
\* duplicate-party check gives every booking request, in every reachable
\* state, the outcomes of the engine with both checks: the same status, the
\* same stored table, and the same message except that a same-party
\* re-booking is answered "seat already taken" in place of "already booked".
\* Both engines therefore reach the same stored states.
C24_DuplicateCheckRedundant ==
    /\ variant = "ticket" =>
          \A dto \in CreateTicketDtos :
            { [resp |-> AsSeatTaken(o.resp), tickets |-> o.tickets] :
                o \in addNewTicket(dto) }
            = addNewTicket_SeatCheckOnly(dto)
    /\ variant = "booking" =>
          \A dto \in BookingDtos :
            { [resp |-> AsSeatTaken(o.resp), bookings |-> o.bookings] :
                o \in addNewBooking(dto) }
            = addNewBooking_SeatCheckOnly(dto)

\* a customer who holds a seat asked for it again and was answered "already
\* booked"; the engine without that check answers "seat already taken"
C24_Witness ==
    /\ resp = BadRequest("addNewTicket", "AlreadyBooked")
    /\ \E dto \in CreateTicketDtos :
         /\ dto.seat_number > Capacity - FreeSeats
         /\ \E o \in addNewTicket(dto) : o.resp = resp
         /\ \A o \in addNewTicket_SeatCheckOnly(dto) :
                o.resp = BadRequest("addNewTicket", "SeatTaken")

-----------------------------------------------------------------------------
(* addNewShowTime requests in flight together: every await of the handler  *)
(* is a step of its own.  A request p keeps its dto and the movie it has   *)
(* fetched in procs[p]; each p makes one request.                          *)

\* the row request p is about to insert
ShowRow(p) ==
    [movie_id |-> Val(procs[p].movie).id,
     theater |-> Normalize(Val(procs[p].dto).theater),
     start_time |-> Val(procs[p].dto).start_time,
     end_time |-> Val(procs[p].dto).end_time,
     price |-> Val(procs[p].dto).price]

Show_FetchMovie(p, newShowTime) ==
    LET found == fetchMovieByTitleAndReleaseYear(Normalize(newShowTime.movie_title),
                                                 newShowTime.movie_release_year)
    IN  /\ procs[p].pc = "idle"
        /\ UNCHANGED <<variant, movies, nextMovieId, showtimes, nextShowTimeId,
                       tickets, bookings>>
        /\ IF newShowTime.price <= 0
           THEN Finish(p, BadRequest("addNewShowTime", "PriceNotPositive"))
           ELSE IF found = {}
           THEN Finish(p, NotFound("addNewShowTime", "MovieNotFound"))
           ELSE \E movie \in found :
                LET checked == validateTimeLogic(newShowTime.start_time,
                                                 newShowTime.end_time, movie.duration)
                IN  IF checked # "ok"
                    THEN Finish(p, BadRequest("addNewShowTime", checked))
                    ELSE /\ procs' = [procs EXCEPT ![p] =
                                [pc |-> "hasOverLap", dto |-> <<newShowTime>>,
                                 showtime |-> <<>>, movie |-> <<movie>>]]
                         /\ UNCHANGED resp

Show_CheckOverlap(p) ==
    /\ procs[p].pc = "hasOverLap"
    /\ UNCHANGED <<variant, movies, nextMovieId, showtimes, nextShowTimeId,
                   tickets, bookings>>
    /\ IF hasOverLappingShowTime(ShowRow(p).theater, ShowRow(p).start_time,
                                 ShowRow(p).end_time)
       THEN Finish(p, BadRequest("addNewShowTime", "Overlap"))
       ELSE Goto(p, "findExact")

Show_CheckExact(p) ==
    /\ procs[p].pc = "findExact"
    /\ UNCHANGED <<variant, movies, nextMovieId, showtimes, nextShowTimeId,
                   tickets, bookings>>
    /\ IF findExactShowTime(ShowRow(p)) # {}
       THEN Finish(p, BadRequest("addNewShowTime", "SameDetails"))
       ELSE Goto(p, "insertShowTime")

\* faulty variant of the insert step: the table refuses a row that overlaps
\* a stored one of the theater, as an exclusion constraint would
Show_Insert_Exclusive(p) ==
    /\ procs[p].pc = "insertShowTime"
    /\ nextShowTimeId <= MaxShowTimeId
    /\ IF hasOverLappingShowTime(ShowRow(p).theater, ShowRow(p).start_time,
                                 ShowRow(p).end_time)
       THEN /\ Finish(p, BadRequest("addNewShowTime", "Overlap"))
            /\ UNCHANGED <<showtimes, nextShowTimeId>>
       ELSE /\ showtimes' = showtimes \cup
                    {[id |-> nextShowTimeId, movie_id |-> ShowRow(p).movie_id,
                      theater |-> ShowRow(p).theater,
                      start_time |-> ShowRow(p).start_time,
                      end_time |-> ShowRow(p).end_time, price |-> ShowRow(p).price]}
            /\ nextShowTimeId' = nextShowTimeId + 1
            /\ Finish(p, Ok("addNewShowTime"))
    /\ UNCHANGED <<variant, movies, nextMovieId, tickets, bookings>>

Show_Insert(p) ==
    /\ procs[p].pc = "insertShowTime"
    /\ nextShowTimeId <= MaxShowTimeId
    /\ showtimes' = showtimes \cup
            {[id |-> nextShowTimeId, movie_id |-> ShowRow(p).movie_id,
              theater |-> ShowRow(p).theater, start_time |-> ShowRow(p).start_time,
              end_time |-> ShowRow(p).end_time, price |-> ShowRow(p).price]}
    /\ nextShowTimeId' = nextShowTimeId + 1
    /\ Finish(p, Ok("addNewShowTime"))
    /\ UNCHANGED <<variant, movies, nextMovieId, tickets, bookings>>

InitAddRace ==
    /\ variant = "ticket"
    /\ movies = Catalog
    /\ nextMovieId = 3
    /\ showtimes = {}
    /\ nextShowTimeId = 1
    /\ tickets = EmptyBag
    /\ bookings = EmptyBag
    /\ resp = NoResp
    /\ procs = [p \in Procs |-> Idle]

NextAddRace ==
    \E p \in Procs :
        \/ \E dto \in OfficeShowTimeDtos : Show_FetchMovie(p, dto)
        \/ Show_CheckOverlap(p)
        \/ Show_CheckExact(p)
        \/ Show_Insert(p)

SpecAddRace == InitAddRace /\ [][NextAddRace]_vars

\* request p leaves the step it has reached after the overlap and
\* same-details checks
InsertsShowTime(p) ==
    procs[p].pc = "insertShowTime" /\ procs'[p].pc # "insertShowTime"

\* C25: the overlap check and the insert of addNewShowTime are steps of
\* their own: a request that has passed the overlap check stores its row
\* and succeeds whatever the show_time table holds by then, so two requests
\* in flight together for overlapping windows in one theater that both pass
\* the check before either inserts are both stored.
C25_AddInsertUnchecked ==
    [][\A p \in Procs :
         InsertsShowTime(p) =>
            /\ resp' = Ok("addNewShowTime")
            /\ showtimes \subseteq showtimes'
            /\ \E s \in showtimes' \ showtimes :
                    /\ s.id = nextShowTimeId
                    /\ s.theater = ShowRow(p).theater
                    /\ s.start_time = ShowRow(p).start_time
                    /\ s.end_time = ShowRow(p).end_time]_vars

\* both requests have ended and two stored showtimes of one theater overlap
C25_Witness ==
    /\ \A p \in Procs : procs[p].pc = "done"
    /\ resp = Ok("addNewShowTime")
    /\ \E a \in showtimes : \E b \in showtimes :
         /\ a.id # b.id
         /\ a.theater = b.theater
         /\ Overlaps(a.start_time, a.end_time, b.start_time, b.end_time)

\* the request of this step ends in a BadRequest or NotFound error
Rejected == resp'.status \in {"BadRequest", "NotFound"}

\* C26: a request on movies, showtimes, tickets or bookings that ends in a
\* BadRequest or NotFound error leaves every table, and the serial
\* counters, exactly as they were before the request.
C26_RejectedKeepsStore ==
    [][Rejected =>
        /\ movies' = movies /\ nextMovieId' = nextMovieId
        /\ showtimes' = showtimes /\ nextShowTimeId' = nextShowTimeId
        /\ tickets' = tickets
        /\ bookings' = bookings]_vars

\* a delete of a showtime that is not stored was refused while other
\* showtimes are stored, and they are all still there
C26_Witness ==
    /\ resp = NotFound("deleteShowTime", "ShowTimeNotFound")
    /\ showtimes # {}
    /\ \E id \in ShowTimeIds :
         /\ fetchShowTimeById(id) = {}
         /\ \A o \in deleteShowTime(id) : o.resp = resp /\ o.showtimes = showtimes

-----------------------------------------------------------------------------
(* The overlap query on its own: one stored showtime and one proposed      *)
(* window in theater "a", both drawn from the half hours of ProbeTimes.    *)

\* the probed times are the half hours FirstHour:00 + 30 * (0 .. MaxProbeSlot)
MaxProbeSlot == 4

ProbeTimes == { <<FirstHour + (k \div 2), 30 * (k % 2)>> : k \in 0..MaxProbeSlot }

\* windows that start before they end
ProbeWindows == { w \in ProbeTimes \X ProbeTimes : SqlTime(w[1]) < SqlTime(w[2]) }

\* a stored showtime of theater "a" with the window w
ProbeRow(w) ==
    [id |-> 1, movie_id |-> 1, theater |-> <<"a">>, start_time |-> w[1],
     end_time |-> w[2], price |-> 10]

InitOverlap ==
    /\ variant = "ticket"
    /\ movies = Catalog
    /\ nextMovieId = 3
    /\ \E w \in ProbeWindows : showtimes = {ProbeRow(w)}
    /\ nextShowTimeId = 2
    /\ tickets = EmptyBag
    /\ bookings = EmptyBag
    /\ resp = NoResp
    /\ \E w \in ProbeWindows :
            procs = << [pc |-> "idle", dto |-> <<w>>, showtime |-> <<>>,
                        movie |-> <<>>] >>

\* the query is run for the proposed window
Overlap_Query ==
    /\ procs[1].pc = "idle"
    /\ LET w == Val(procs[1].dto)
       IN  resp' = IF hasOverLappingShowTime(<<"a">>, w[1], w[2])
                   THEN BadRequest("hasOverLappingShowTime", "Overlap")
                   ELSE Ok("hasOverLappingShowTime")
    /\ procs' = [procs EXCEPT ![1].pc = "done"]
    /\ UNCHANGED <<variant, movies, nextMovieId, showtimes, nextShowTimeId,
                   tickets, bookings>>

NextOverlap == Overlap_Query

SpecOverlap == InitOverlap /\ [][NextOverlap]_vars

\* the proposed window [S, E) and the stored window [s, e) of a state
Proposed == Val(procs[1].dto)
Stored == CHOOSE w \in ProbeWindows : showtimes = {ProbeRow(w)}

\* C27: for windows with S < E and s < e, the three-clause predicate of the
\* overlap query holds exactly when S < e and s < E; it gives the same
\* answer with the two windows exchanged, and it does not hold for windows
\* that only touch (E = s or e = S).  The query answers accordingly.
C27_OverlapIsIntersection ==
    LET S == Proposed[1]
        E == Proposed[2]
        s == Stored[1]
        e == Stored[2]
        clause == OverlapClause(ProbeRow(Stored), <<"a">>, S, E)
    IN  /\ clause <=> (SqlTime(S) < SqlTime(e) /\ SqlTime(s) < SqlTime(E))
        /\ clause <=> OverlapClause(ProbeRow(Proposed), <<"a">>, s, e)
        /\ (E = s \/ e = S) => ~ clause
        /\ procs[1].pc = "done" =>
              (resp = BadRequest("hasOverLappingShowTime", "Overlap") <=>
                    (SqlTime(S) < SqlTime(e) /\ SqlTime(s) < SqlTime(E)))

\* the query was run for a window that starts where the stored one ends,
\* and found no overlap
C27_Witness ==
    /\ procs[1].pc = "done"
    /\ Proposed[1] = Stored[2]
    /\ resp = Ok("hasOverLappingShowTime")

\* a stored showtime has the movie, theater, start, end and price of the
\* request
SameDetailsStored(dto) ==
    \E m \in fetchMovieByTitleAndReleaseYear(Normalize(dto.movie_title),
                                             dto.movie_release_year) :
        \E s \in showtimes :
            /\ s.movie_id = m.id
            /\ s.theater = Normalize(dto.theater)
            /\ s.start_time = dto.start_time
            /\ s.end_time = dto.end_time
            /\ s.price = dto.price

\* C28: with requests run one at a time, addNewShowTime never answers
\* "showtime with the same details already exists": a request whose
\* details are those of a stored showtime is refused by the overlap check
\* before the same-details lookup is made.
C28_SameDetailsUnreachable ==
    \A dto \in CreateShowTimeDtos : \A o \in addNewShowTime(dto) :
        /\ o.resp.msg # "SameDetails"
        /\ SameDetailsStored(dto) =>
              /\ o.resp = BadRequest("addNewShowTime", "Overlap")
              /\ o.showtimes = showtimes

\* a request with the details of a stored showtime was refused for overlap
C28_Witness ==
    /\ resp = BadRequest("addNewShowTime", "Overlap")
    /\ \E dto \in CreateShowTimeDtos :
         /\ SameDetailsStored(dto)
         /\ \A o \in addNewShowTime(dto) : o.resp = resp

\* C29: with showtime requests run one at a time, at most one stored
\* showtime has a given theater (trimmed, lower case) and start time, so the
\* lookup by theater and start time that addNewTicket makes finds at most
\* one showtime.
C29_OneShowTimePerTheaterAndStart ==
    /\ \A a \in showtimes : \A b \in showtimes :
            Normalize(a.theater) = Normalize(b.theater)
            /\ a.start_time = b.start_time => a = b
    /\ \A th \in RawTheaters : \A t \in Times :
            Cardinality(findShowTimeByTheaterAndStartTime(Normalize(th), t)) <= 1

\* two showtimes that start at the same time are stored in two theaters,
\* one of them just moved there, and the lookup finds each of them alone
C29_Witness ==
    /\ resp = Ok("updateShowTimeInfo")
    /\ \E a \in showtimes : \E b \in showtimes :
         /\ a.id # b.id
         /\ a.start_time = b.start_time
         /\ findShowTimeByTheaterAndStartTime(a.theater, a.start_time) = {a}
         /\ findShowTimeByTheaterAndStartTime(b.theater, b.start_time) = {b}

\* C30: every stored ticket whose showtime is still stored carries the
\* movie id of that showtime.
C30_TicketMovieMatchesShowTime ==
    \A t \in BagToSet(tickets) : \A s \in showtimes :
        s.id = t.showtime_id => t.movie_id = s.movie_id

====
